---- MODULE Spec2Model ----
(***************************************************************************)
(* Model of the code-review workflow: CodeReviewAgent (src/agent/agent.py) *)
(* driven by run_agent and main (src/agent/main.py); of the issue          *)
(* workflow: ResolveIssueAgent (src/resolve_issue/agent.py) driven by main *)
(* (src/resolve_issue/main.py); and of the tools the stages are given      *)
(* (src/tools/bash_tool.py, src/tools/grep_tool.py).                       *)
(*                                                                         *)
(* Text is modelled at two levels.  The entry URL is a sequence of         *)
(* one-character strings, parsed as urllib.parse.urlparse parses it.       *)
(* Every other Python value is a tagged record (see "Python values").      *)
(***************************************************************************)
EXTENDS Integers, Sequences, FiniteSets, TLC

VARIABLES
    pc,            \* position of the program (main / run_agent / orchestrator)
    pr_url,        \* the argument of run_agent (args.pr_url)
    state,         \* ctx.session.state: function from the present keys to values
    clusters_data, \* local of _run_async_impl (agent.py:128/130)
    clusters,      \* local of _run_async_impl (agent.py:136)
    all_reviews,   \* local of _run_async_impl (agent.py:142)
    i,             \* loop index of the fan-out (agent.py:145)
    emitted,       \* Run Results yielded by the orchestrator itself, in order
    result,        \* local of run_agent (main.py:28,35)
    stdout,        \* documents printed by main (main.py:62,71)
    invoked,       \* history: stages whose run_async was entered, in order
    completed,     \* history: stages whose run_async loop ended normally
    tool_seen,     \* history: a tool call of this run returned an error text
    ipc,           \* position of the issue program (main / orchestrator)
    issue_url,     \* args.issue_url (resolve_issue/main.py:39)
    istate,        \* ctx.session.state of the issue run
    ievents,       \* events yielded by ResolveIssueAgent itself, in order
    iinvoked,      \* history: issue stages whose run_async was entered
    icompleted,    \* history: issue stages whose run_async loop ended
    tin,           \* the arguments of one tool call
    tout,          \* what that tool call produced
    other          \* a second run_agent coroutine of the event loop, suspended

\* the variables of the issue program and of a tool call on its own
rest == <<ipc, issue_url, istate, ievents, iinvoked, icompleted, tin, tout,
          other>>

vars == <<pc, pr_url, state, clusters_data, clusters, all_reviews, i,
          emitted, result, stdout, invoked, completed, tool_seen, rest>>

(***************************************************************************)
(* Bounds                                                                  *)
(***************************************************************************)
\* longest path (in segments) of an entry URL
MaxSegs == 4
\* most clusters a stage-1 output lists
MaxClusters == 2
\* most names an allowlist holds
MaxTools == 2
\* longest output (in bytes) a child process writes to one stream
MaxOut == 3
\* largest depth find_files is called with
MaxDepth == 2
\* most clusters of a run that shares the event loop with another run
MaxPairClusters == 1

(***************************************************************************)
(* Character sequences                                                     *)
(***************************************************************************)
Digits == {"0", "1", "2", "3", "4", "5", "6", "7", "8", "9"}

Alpha == {"a", "b", "c", "d", "e", "f", "g", "h", "i", "j", "k", "l", "m",
          "n", "o", "p", "q", "r", "s", "t", "u", "v", "w", "x", "y", "z"}

\* urllib.parse.scheme_chars (lower-case part; the inputs hold no capitals)
SchemeChars == Alpha \cup Digits \cup {"+", "-", "."}

HTTPS == <<"h", "t", "t", "p", "s">>
FTP == <<"f", "t", "p">>
GITHUB == <<"g", "i", "t", "h", "u", "b", ".", "c", "o", "m">>
GITLAB == <<"g", "i", "t", "l", "a", "b", ".", "c", "o", "m">>
ACME == <<"a", "c", "m", "e">>
WIDGETS == <<"w", "i", "d", "g", "e", "t", "s">>
PULL == <<"p", "u", "l", "l">>
N42 == <<"4", "2">>

\* str.find(c): index of the first c in s (1-based), 0 when there is none
IndexOf(s, c) ==
    IF \E k \in 1..Len(s) : s[k] = c
    THEN CHOOSE k \in 1..Len(s) : s[k] = c /\ \A j \in 1..(k - 1) : s[j] # c
    ELSE 0

\* index of the first character of s at or after `from` that is in C,
\* Len(s) + 1 when there is none (the delimiter search of _splitnetloc)
FirstOf(s, C, from) ==
    IF \E k \in from..Len(s) : s[k] \in C
    THEN CHOOSE k \in from..Len(s) :
             s[k] \in C /\ \A j \in from..(k - 1) : s[j] \notin C
    ELSE Len(s) + 1

\* str.strip(c)
RECURSIVE LStrip(_, _)
LStrip(s, c) ==
    IF s # <<>> /\ Head(s) = c THEN LStrip(Tail(s), c) ELSE s

RECURSIVE RStrip(_, _)
RStrip(s, c) ==
    IF s # <<>> /\ s[Len(s)] = c THEN RStrip(SubSeq(s, 1, Len(s) - 1), c) ELSE s

Strip(s, c) == RStrip(LStrip(s, c), c)

\* str.split(c): always at least one part; empty parts are kept
RECURSIVE Split(_, _)
Split(s, c) ==
    LET k == IndexOf(s, c)
    IN  IF k = 0 THEN <<s>>
        ELSE <<SubSeq(s, 1, k - 1)>> \o Split(SubSeq(s, k + 1, Len(s)), c)

\* int(s) succeeds: an optional sign, then one or more digits
\* (the inputs hold no white space and no underscore)
IntParses(s) ==
    LET body == IF s # <<>> /\ s[1] \in {"+", "-"} THEN Tail(s) ELSE s
    IN  body # <<>> /\ \A k \in 1..Len(body) : body[k] \in Digits

\* urllib.parse.urlparse, as far as scheme, netloc and path go
UrlParse(url) ==
    LET c == IndexOf(url, ":")
        hasScheme == /\ c > 1
                     /\ url[1] \in Alpha
                     /\ \A k \in 1..(c - 1) : url[k] \in SchemeChars
        scheme == IF hasScheme THEN SubSeq(url, 1, c - 1) ELSE <<>>
        r1 == IF hasScheme THEN SubSeq(url, c + 1, Len(url)) ELSE url
        hasNetloc == Len(r1) >= 2 /\ r1[1] = "/" /\ r1[2] = "/"
        delim == FirstOf(r1, {"/", "?", "#"}, 3)
        netloc == IF hasNetloc THEN SubSeq(r1, 3, delim - 1) ELSE <<>>
        r2 == IF hasNetloc THEN SubSeq(r1, delim, Len(r1)) ELSE r1
        f == IndexOf(r2, "#")
        r3 == IF f > 0 THEN SubSeq(r2, 1, f - 1) ELSE r2
        q == IndexOf(r3, "?")
        path == IF q > 0 THEN SubSeq(r3, 1, q - 1) ELSE r3
    IN  [scheme |-> scheme, netloc |-> netloc, path |-> path]

(***************************************************************************)
(* Python values.  A value is a record tagged by t:                        *)
(*   none | bool | num | list | dict      the JSON-compatible values       *)
(*   chars   a str given character by character (the entry URL)            *)
(*   text    a str that is not a JSON document; s lists its pieces, and    *)
(*           the empty str is PyText(<<>>)                                 *)
(*   json    a str that is the JSON document of value v                    *)
(*   content a google.genai Content object produced by a stage             *)
(* A dict is a function from its keys (strings) to values.                 *)
(***************************************************************************)
PyNone == [t |-> "none"]
PyBool(b) == [t |-> "bool", b |-> b]
PyNum(n) == [t |-> "num", n |-> n]
PyList(items) == [t |-> "list", items |-> items]
PyDict(m) == [t |-> "dict", m |-> m]
PyChars(c) == [t |-> "chars", c |-> c]
PyText(s) == [t |-> "text", s |-> s]
PyJsonText(v) == [t |-> "json", v |-> v]
StageContent(name) == [t |-> "content", stage |-> name]

EmptyMap == [k \in {} |-> PyNone]

IsStr(v) == v.t \in {"chars", "text", "json"}

\* bool(v): the truth value Python gives v
Truthy(v) ==
    CASE v.t = "none" -> FALSE
      [] v.t = "bool" -> v.b
      [] v.t = "num" -> v.n # 0
      [] v.t = "list" -> v.items # <<>>
      [] v.t = "dict" -> DOMAIN v.m # {}
      [] v.t = "chars" -> v.c # <<>>
      [] v.t = "text" -> v.s # <<>>
      [] v.t = "json" -> TRUE
      [] v.t = "content" -> TRUE

\* str(i) for the small indices of the model
DigitStr == <<"0", "1", "2", "3", "4", "5", "6", "7", "8", "9">>
Str(n) == DigitStr[n + 1]

\* dict.get(k) on the session state
Get(st, k) == IF k \in DOMAIN st THEN st[k] ELSE PyNone

\* st[k] = v
Put(st, k, v) == [x \in DOMAIN st \cup {k} |-> IF x = k THEN v ELSE st[x]]

(***************************************************************************)
(* Entry URLs: [scheme ":"] ["//" host] {"/" segment} [suffix]             *)
(***************************************************************************)
SchemePrefixes == <<HTTPS \o <<":">>, FTP \o <<":">>, <<>>>>
Authorities == <<<<"/", "/">> \o GITHUB, <<"/", "/">> \o GITLAB, <<>>>>
SegSet == {ACME, WIDGETS, PULL, N42}
Suffixes == {<<>>, <<"/">>, <<"?", "q">>}

RECURSIVE JoinPath(_)
JoinPath(segs) ==
    IF segs = <<>> THEN <<>> ELSE <<"/">> \o Head(segs) \o JoinPath(Tail(segs))

SegLists == UNION {[1..n -> SegSet] : n \in 0..MaxSegs}

EntryUrl(sp, au, segs, su) ==
    SchemePrefixes[sp] \o Authorities[au] \o JoinPath(segs) \o su

(***************************************************************************)
(* CodeReviewAgent                                                         *)
(***************************************************************************)
ValidatePrUrl(v) ==
    IF ~Truthy(v) THEN FALSE
    ELSE LET parsed == UrlParse(v.c)
             path_parts == Split(Strip(parsed.path, "/"), "/")
         IN  IF parsed.netloc # GITHUB THEN FALSE
             ELSE IF Len(path_parts) # 4 \/ path_parts[3] # PULL THEN FALSE
             ELSE IntParses(path_parts[4])

CreateErrorResponse(error_message) ==
    PyDict([success |-> PyBool(FALSE),
            error |-> PyText(error_message),
            clusters |-> PyNone,
            reviews |-> PyNone,
            summary |-> PyNone])

\* json.loads(v) of a str v: ok is FALSE when it raises JSONDecodeError
JsonLoads(v) ==
    IF v.t = "json" THEN [ok |-> TRUE, val |-> v.v]
    ELSE [ok |-> FALSE, val |-> PyNone]

\* `"clusters" in d`: "yes", "no", or "TypeError" when d supports no `in`
ContainsClusters(d) ==
    CASE d.t = "dict" -> IF "clusters" \in DOMAIN d.m THEN "yes" ELSE "no"
      [] d.t = "list" ->
            IF \E k \in 1..Len(d.items) :
                   d.items[k].t = "text" /\ d.items[k].s = <<"clusters">>
            THEN "yes" ELSE "no"
      [] d.t = "text" ->
            IF \E k \in 1..Len(d.s) : d.s[k] = "clusters" THEN "yes" ELSE "no"
      [] OTHER -> "TypeError"

\* agent.py:126-139: ok is FALSE on every path that yields "No clusters found"
DecodeClusters(base_clusters) ==
    LET loaded == IF IsStr(base_clusters) THEN JsonLoads(base_clusters)
                  ELSE [ok |-> TRUE, val |-> base_clusters]
        data == loaded.val
    IN  IF ~loaded.ok THEN [ok |-> FALSE, data |-> PyNone, clusters |-> PyNone]
        ELSE IF ContainsClusters(data) # "yes"
             THEN [ok |-> FALSE, data |-> data, clusters |-> PyNone]
        ELSE IF data.t # "dict"
             THEN [ok |-> FALSE, data |-> data, clusters |-> PyNone]
        ELSE [ok |-> TRUE, data |-> data, clusters |-> data.m["clusters"]]

\* the keys of a dict in some fixed order
RECURSIVE KeySeq(_)
KeySeq(S) ==
    IF S = {} THEN <<>>
    ELSE LET k == CHOOSE x \in S : TRUE IN <<PyText(<<k>>)>> \o KeySeq(S \ {k})

\* iter(v) is defined
Iterable(v) == v.t \in {"list", "dict", "text"}

\* what `for x in v` visits
Items(v) ==
    CASE v.t = "list" -> v.items
      [] v.t = "dict" -> KeySeq(DOMAIN v.m)
      [] v.t = "text" -> [k \in 1..Len(v.s) |-> PyText(<<v.s[k]>>)]

\* x.get exists
HasGet(x) == x.t = "dict"

\* the f-strings that name the fan-out stage and its output key
ReviewNames == <<"review_cluster_0", "review_cluster_1", "review_cluster_2",
                 "review_cluster_3", "review_cluster_4", "review_cluster_5">>
ReviewKeys == <<"review_0", "review_1", "review_2",
                "review_3", "review_4", "review_5">>
ReviewName(k) == ReviewNames[k + 1]
ReviewKey(k) == ReviewKeys[k + 1]

\* the checks of the declared output keys
FetchCheckFails(base_clusters) == ~Truthy(base_clusters)

ReviewCheckFails(review_result) == ~Truthy(review_result)

\* review_i is appended as it was left, undecoded
DecodeReview_Raw(review_result) == [ok |-> TRUE, val |-> review_result]

\* the decode of review_i: ok is FALSE when json.loads raises
DecodeReview(review_result) ==
    IF IsStr(review_result) THEN JsonLoads(review_result)
    ELSE [ok |-> TRUE, val |-> review_result]

\* the filter stage's output is never found missing
FilterCheckFails_Never(filtered_review) == FALSE

FilterCheckFails(filtered_review) == ~Truthy(filtered_review)

\* the post-comment stage's output is never found missing
PostCheckFails_Never(post_output) == FALSE

PostCheckFails(post_output) == ~Truthy(post_output)

ReviewFailedMessage(k) == <<"Review failed for cluster ", Str(k)>>

UnexpectedError(e) == CreateErrorResponse(<<"Unexpected error: ", e>>)

SuccessResponse(data, reviews, filtered_review) ==
    PyDict([success |-> PyBool(TRUE),
            clusters |-> data,
            reviews |-> PyList(reviews),
            summary |-> filtered_review,
            error |-> PyNone])

(***************************************************************************)
(* What the reasoning collaborator may leave under a declared output key   *)
(***************************************************************************)
Cluster(j) ==
    PyDict([name |-> PyText(<<"cluster ", Str(j)>>),
            description |-> PyText(<<"changes of cluster ", Str(j)>>),
            files |-> PyList(<<PyDict([filename |-> PyText(<<"f.py">>),
                                       diff |-> PyText(<<"+x">>)])>>)])

ClusterList(n) == PyList([j \in 1..n |-> Cluster(j - 1)])

ClustersDoc(n) == PyDict([clusters |-> ClusterList(n)])

ReviewDoc(k) ==
    PyDict([cluster_name |-> PyText(<<"cluster ", Str(k)>>),
            reviews |-> PyList(<<PyDict([issue |-> PyText(<<"bug">>),
                                         severity |-> PyText(<<"high">>)])>>)])

FetchOutputs ==
    [n \in 1..(MaxClusters + 1) |-> PyJsonText(ClustersDoc(n - 1))]
    \o
    <<PyNone,
      PyText(<<>>),
      PyText(<<"not json">>),
      PyJsonText(PyNone),
      PyJsonText(PyNum(5)),
      PyJsonText(PyText(<<"the ", "clusters">>)),
      PyJsonText(PyList(<<PyText(<<"clusters">>)>>)),
      PyJsonText(PyDict([groups |-> PyList(<<>>)])),
      PyJsonText(PyDict([clusters |-> PyNum(5)])),
      PyJsonText(PyDict([clusters |-> PyList(<<PyNum(5)>>)])),
      PyJsonText(PyDict([clusters |-> PyDict(EmptyMap)])),
      ClustersDoc(1)>>

ReviewOutputs(k) ==
    <<PyJsonText(ReviewDoc(k)),
      ReviewDoc(k),
      PyNone,
      PyText(<<>>),
      PyText(<<"not json">>),
      PyJsonText(PyNum(5))>>

FilterOutputs ==
    <<PyNone, PyText(<<>>), PyText(<<"## Code Review Summary">>)>>

PostOutputs ==
    <<PyNone, PyText(<<>>), PyText(<<"gh pr comment 42 --body ...">>)>>

(***************************************************************************)
(* Steps of the orchestrator.  A step runs from one suspension point of    *)
(* _run_async_impl (an `async for` over a stage) to the next.              *)
(***************************************************************************)
\* `yield Event(content=r)` followed by the end of the generator; the loop
\* of run_agent keeps the content of the event when it is truthy
Emit(r) ==
    /\ emitted' = Append(emitted, r)
    /\ result' = IF Truthy(r) THEN r ELSE result
    /\ pc' = "agent_done"
    /\ invoked' = invoked

\* `async for event in <stage>.run_async(ctx)` is entered
Invoke(stage, at) ==
    /\ invoked' = Append(invoked, stage)
    /\ pc' = at
    /\ UNCHANGED <<emitted, result>>

\* the loop starts at the second cluster
LoopStep_SkipsFirst(k, cls) ==
    IF ~Iterable(cls)
    THEN Emit(UnexpectedError("TypeError")) /\ i' = i
    ELSE IF k + 1 < Len(Items(cls))
         THEN /\ i' = k + 1
              /\ IF HasGet(Items(cls)[k + 2])
                 THEN Invoke(ReviewName(k + 1), "review")
                 ELSE Emit(UnexpectedError("AttributeError"))
         ELSE Invoke("filter_reviews", "filter_reviews") /\ i' = i

\* agent.py:145-195 and 213-260: iteration k of the fan-out loop begins, or
\* the loop is over and the filter stage begins
LoopStep(k, cls) ==
    IF ~Iterable(cls)
    THEN Emit(UnexpectedError("TypeError")) /\ i' = i
    ELSE IF k < Len(Items(cls))
         THEN /\ i' = k
              /\ IF HasGet(Items(cls)[k + 1])
                 THEN Invoke(ReviewName(k), "review")
                 ELSE Emit(UnexpectedError("AttributeError"))
         ELSE Invoke("filter_reviews", "filter_reviews") /\ i' = i

\* only the presence of the entry parameter is tested
Start_PresenceOnly ==
    /\ pc = "start"
    /\ LET url == Get(state, "pr_url")
       IN  IF ~Truthy(url)
           THEN Emit(CreateErrorResponse(<<"No pr_url provided">>))
           ELSE Invoke("fetch_cluster", "fetch_cluster")
    /\ UNCHANGED <<rest, tool_seen, pr_url, state, clusters_data, clusters, all_reviews, i,
                   stdout, completed>>

\* agent.py:60-116
Start ==
    /\ pc = "start"
    /\ LET url == Get(state, "pr_url")
       IN  IF ~Truthy(url)
           THEN Emit(CreateErrorResponse(<<"No pr_url provided">>))
           ELSE IF ~ValidatePrUrl(url)
                THEN Emit(CreateErrorResponse(<<"Invalid pr_url format">>))
                ELSE Invoke("fetch_cluster", "fetch_cluster")
    /\ UNCHANGED <<rest, tool_seen, pr_url, state, clusters_data, clusters, all_reviews, i,
                   stdout, completed>>

\* agent.py:120-195
AfterFetchCluster ==
    /\ pc = "after_fetch"
    /\ LET base_clusters == Get(state, "base_clusters")
           dec == DecodeClusters(base_clusters)
       IN  IF FetchCheckFails(base_clusters)
           THEN /\ Emit(CreateErrorResponse(<<"No base_clusters found">>))
                /\ UNCHANGED <<clusters_data, clusters, all_reviews, i>>
           ELSE IF ~dec.ok
                THEN /\ Emit(CreateErrorResponse(<<"No clusters found">>))
                     /\ UNCHANGED <<clusters_data, clusters, all_reviews, i>>
                ELSE /\ clusters_data' = dec.data
                     /\ clusters' = dec.clusters
                     /\ all_reviews' = <<>>
                     /\ LoopStep(0, dec.clusters)
    /\ UNCHANGED <<rest, tool_seen, pr_url, state, stdout, completed>>

\* a failed review is skipped and the loop goes on (partial success)
AfterReview_SkipsFailed ==
    /\ pc = "after_review"
    /\ LET review_result == Get(state, ReviewKey(i))
           dec == DecodeReview(review_result)
       IN  /\ all_reviews' = IF ReviewCheckFails(review_result) \/ ~dec.ok
                             THEN all_reviews
                             ELSE Append(all_reviews, dec.val)
           /\ LoopStep(i + 1, clusters)
    /\ UNCHANGED <<rest, tool_seen, pr_url, state, clusters_data, clusters, stdout, completed>>

\* agent.py:198-211, then the next iteration of the loop
AfterReview ==
    /\ pc = "after_review"
    /\ LET review_result == Get(state, ReviewKey(i))
           dec == DecodeReview(review_result)
       IN  IF ReviewCheckFails(review_result) \/ ~dec.ok
           THEN /\ Emit(CreateErrorResponse(ReviewFailedMessage(i)))
                /\ UNCHANGED <<all_reviews, i>>
           ELSE /\ all_reviews' = Append(all_reviews, dec.val)
                /\ LoopStep(i + 1, clusters)
    /\ UNCHANGED <<rest, tool_seen, pr_url, state, clusters_data, clusters, stdout, completed>>

\* the failure is emitted but the generator goes on (a missing `return`)
AfterFilter_NoReturn ==
    /\ pc = "after_filter"
    /\ IF FilterCheckFails(Get(state, "reviewed_review"))
       THEN /\ emitted' = Append(emitted,
                                 CreateErrorResponse(<<"Review filtering failed">>))
            /\ result' = CreateErrorResponse(<<"Review filtering failed">>)
            /\ invoked' = Append(invoked, "post_comment")
            /\ pc' = "post_comment"
       ELSE Invoke("post_comment", "post_comment")
    /\ UNCHANGED <<rest, tool_seen, pr_url, state, clusters_data, clusters, all_reviews, i,
                   stdout, completed>>

\* agent.py:264-290
AfterFilter ==
    /\ pc = "after_filter"
    /\ IF FilterCheckFails(Get(state, "reviewed_review"))
       THEN Emit(CreateErrorResponse(<<"Review filtering failed">>))
       ELSE Invoke("post_comment", "post_comment")
    /\ UNCHANGED <<rest, tool_seen, pr_url, state, clusters_data, clusters, all_reviews, i,
                   stdout, completed>>

\* a missing output makes the post-comment stage run again
AfterPostComment_Retries ==
    /\ pc = "after_post"
    /\ IF PostCheckFails(Get(state, "output"))
       THEN Invoke("post_comment", "post_comment")
       ELSE Emit(SuccessResponse(clusters_data, all_reviews,
                                 Get(state, "reviewed_review")))
    /\ UNCHANGED <<rest, tool_seen, pr_url, state, clusters_data, clusters, all_reviews, i,
                   stdout, completed>>

\* agent.py:294-308
AfterPostComment ==
    /\ pc = "after_post"
    /\ IF PostCheckFails(Get(state, "output"))
       THEN Emit(CreateErrorResponse(<<"Comment posting failed">>))
       ELSE Emit(SuccessResponse(clusters_data, all_reviews,
                                 Get(state, "reviewed_review")))
    /\ UNCHANGED <<rest, tool_seen, pr_url, state, clusters_data, clusters, all_reviews, i,
                   stdout, completed>>

(***************************************************************************)
(* Steps of the stages (the reasoning collaborator behind LlmAgent).  A    *)
(* stage ends by leaving a value under its output key, or nothing, and its *)
(* last event is passed on to run_agent; or it raises.                     *)
(***************************************************************************)
\* the stage replaces the state by its own output
StageReturns_Replaces(name, key, wrote, v, at) ==
    /\ state' = IF wrote THEN Put(EmptyMap, key, v) ELSE state
    /\ completed' = Append(completed, name)
    /\ result' = StageContent(name)
    /\ pc' = at
    /\ UNCHANGED <<rest, tool_seen, pr_url, clusters_data, clusters, all_reviews, i, emitted,
                   stdout, invoked>>

\* the stage named `name` ends normally; `wrote` tells whether it left v
\* under `key`
StageReturns(name, key, wrote, v, at) ==
    /\ state' = IF wrote THEN Put(state, key, v) ELSE state
    /\ completed' = Append(completed, name)
    /\ result' = StageContent(name)
    /\ pc' = at
    /\ UNCHANGED <<rest, tool_seen, pr_url, clusters_data, clusters, all_reviews, i, emitted,
                   stdout, invoked>>

FetchClusterReturns ==
    /\ pc = "fetch_cluster"
    /\ \/ StageReturns("fetch_cluster", "base_clusters", FALSE, PyNone,
                       "after_fetch")
       \/ \E k \in 1..Len(FetchOutputs) :
              StageReturns("fetch_cluster", "base_clusters", TRUE,
                           FetchOutputs[k], "after_fetch")

ReviewReturns ==
    /\ pc = "review"
    /\ \/ StageReturns(ReviewName(i), ReviewKey(i), FALSE, PyNone,
                       "after_review")
       \/ \E k \in 1..Len(ReviewOutputs(i)) :
              StageReturns(ReviewName(i), ReviewKey(i), TRUE,
                           ReviewOutputs(i)[k], "after_review")

FilterReturns ==
    /\ pc = "filter_reviews"
    /\ \/ StageReturns("filter_reviews", "reviewed_review", FALSE, PyNone,
                       "after_filter")
       \/ \E k \in 1..Len(FilterOutputs) :
              StageReturns("filter_reviews", "reviewed_review", TRUE,
                           FilterOutputs[k], "after_filter")

PostCommentReturns ==
    /\ pc = "post_comment"
    /\ \/ StageReturns("post_comment", "output", FALSE, PyNone, "after_post")
       \/ \E k \in 1..Len(PostOutputs) :
              StageReturns("post_comment", "output", TRUE, PostOutputs[k],
                           "after_post")

\* agent.py:310-311: a stage raises inside its `async for`
StageRaises ==
    /\ pc \in {"fetch_cluster", "review", "filter_reviews", "post_comment"}
    /\ Emit(UnexpectedError("stage error"))
    /\ UNCHANGED <<rest, tool_seen, pr_url, state, clusters_data, clusters, all_reviews, i,
                   stdout, completed>>

(***************************************************************************)
(* run_agent and main                                                      *)
(***************************************************************************)
\* main.py:37: the mapping returned when no event had content
NoResponse ==
    PyDict([success |-> PyBool(FALSE),
            error |-> PyText(<<"No response from agent">>)])

\* main.py:64-70
ErrorResult(e) ==
    PyDict([success |-> PyBool(FALSE),
            error |-> PyText(<<"Failed to run agent: ", e>>),
            clusters |-> PyNone,
            reviews |-> PyNone,
            summary |-> PyNone])

\* main.py:15-25: the session is created with the entry parameter
CreateSession ==
    /\ pc = "main"
    /\ state' = [pr_url |-> pr_url]
    /\ pc' = "start"
    /\ UNCHANGED <<rest, tool_seen, pr_url, clusters_data, clusters, all_reviews, i, emitted,
                   result, stdout, invoked, completed>>

\* main.py:29-35: the runner's stream ends without having run the agent
RunnerYieldsNothing ==
    /\ pc = "start"
    /\ pc' = "no_events"
    /\ UNCHANGED <<rest, tool_seen, pr_url, state, clusters_data, clusters, all_reviews, i,
                   emitted, result, stdout, invoked, completed>>

\* main.py:63-71: the session service or the runner raises
RunnerRaises ==
    /\ pc \in {"main", "start"}
    /\ stdout' = Append(stdout, ErrorResult("runner error"))
    /\ pc' = "exit"
    /\ UNCHANGED <<rest, tool_seen, pr_url, state, clusters_data, clusters, all_reviews, i,
                   emitted, result, invoked, completed>>

\* main.py:37 and 61-62: run_agent returns and main prints
ReturnAndPrint ==
    /\ pc \in {"agent_done", "no_events"}
    /\ stdout' = Append(stdout, IF Truthy(result) THEN result ELSE NoResponse)
    /\ pc' = "exit"
    /\ UNCHANGED <<rest, tool_seen, pr_url, state, clusters_data, clusters, all_reviews, i,
                   emitted, result, invoked, completed>>

(***************************************************************************)
(* One process runs one program: the other program and the tool call stay  *)
(* where these predicates put them.                                        *)
(***************************************************************************)
\* agent/main.py:74-75 was not started
ReviewIdle ==
    /\ pc = "idle"
    /\ pr_url = PyNone
    /\ state = EmptyMap
    /\ clusters_data = PyNone
    /\ clusters = PyNone
    /\ all_reviews = <<>>
    /\ i = 0
    /\ emitted = <<>>
    /\ result = PyNone
    /\ stdout = <<>>
    /\ invoked = <<>>
    /\ completed = <<>>
    /\ tool_seen = FALSE
    /\ other = PyNone

\* resolve_issue/main.py:69-70 was not started
IssueIdle ==
    /\ ipc = "idle"
    /\ issue_url = PyNone
    /\ istate = EmptyMap
    /\ ievents = <<>>
    /\ iinvoked = <<>>
    /\ icompleted = <<>>

\* no tool is called outside a stage
ToolIdle ==
    /\ tin = PyNone
    /\ tout = PyNone

Init ==
    /\ pc = "main"
    /\ \E sp \in 1..Len(SchemePrefixes), au \in 1..Len(Authorities) :
           \E segs \in SegLists, su \in Suffixes :
               pr_url = PyChars(EntryUrl(sp, au, segs, su))
    /\ state = EmptyMap
    /\ clusters_data = PyNone
    /\ clusters = PyNone
    /\ all_reviews = <<>>
    /\ i = 0
    /\ emitted = <<>>
    /\ result = PyNone
    /\ stdout = <<>>
    /\ invoked = <<>>
    /\ completed = <<>>
    /\ tool_seen = FALSE
    /\ other = PyNone
    /\ IssueIdle
    /\ ToolIdle

Next ==
    \/ CreateSession
    \/ RunnerYieldsNothing
    \/ RunnerRaises
    \/ Start
    \/ FetchClusterReturns
    \/ AfterFetchCluster
    \/ ReviewReturns
    \/ AfterReview
    \/ FilterReturns
    \/ AfterFilter
    \/ PostCommentReturns
    \/ AfterPostComment
    \/ StageRaises
    \/ ReturnAndPrint

Spec == Init /\ [][Next]_vars

(***************************************************************************)
(* ResolveIssueAgent (src/resolve_issue/agent.py)                          *)
(***************************************************************************)
\* str.startswith
StartsWith(s, p) == Len(s) >= Len(p) /\ SubSeq(s, 1, Len(p)) = p

\* paths of the issue URLs the program is started with
IssuePaths == <<JoinPath(<<ACME, WIDGETS, <<"i", "s", "s", "u", "e", "s">>, N42>>),
                JoinPath(<<ACME>>), <<"/">>, <<>>>>

\* the output_key each stage is constructed with ("" where it has none)
OutputKey(stage) ==
    CASE stage = "get_issue_details" -> "issue_details"
      [] stage = "analyze_issue" -> "analysis"
      [] stage = "implement_changes" -> ""
      [] stage = "create_pr" -> "pr_output"

\* what a stage can leave under its key: nothing, the empty text, a text
IssueOutputs == <<PyNone, PyText(<<>>), PyText(<<"text">>)>>

\* main.py:20: the shell runs `gh auth status ...; echo $?`, and os.system
\* returns the status of the last command, echo, whatever gh answered
IsGhAuthenticated(gh_status) ==
    LET echo_status == 0
    IN  echo_status = 0

\* main.py:41-45: the two tests that raise ValueError
UrlRejected(url) ==
    \/ ~Truthy(url)
    \/ ~StartsWith(url.c, HTTPS \o <<":", "/", "/">> \o GITHUB \o <<"/">>)

\* the variables an issue run leaves alone
reviewvars == <<pc, pr_url, state, clusters_data, clusters, all_reviews, i,
                emitted, result, stdout, invoked, completed, tool_seen, other>>

\* yield Event(content=types.Content(role, parts=[Part(text)]), author)
IssueEmit(role, text) ==
    ievents' = Append(ievents, [author |-> "resolve_issue_agent",
                                role |-> role, text |-> text])

IssueInvoke(stage) ==
    /\ iinvoked' = Append(iinvoked, stage)
    /\ ipc' = stage

\* main.py:23-56: checks, argument tests, session creation
IssueMain ==
    /\ ipc = "main"
    /\ \E gh_status \in {0, 1} :
           IF ~IsGhAuthenticated(gh_status) \/ UrlRejected(issue_url)
           THEN ipc' = "raised" /\ istate' = istate
           ELSE ipc' = "start" /\ istate' = [issue_url |-> issue_url]
    /\ UNCHANGED <<issue_url, ievents, iinvoked, icompleted>>
    /\ UNCHANGED <<reviewvars, tin, tout>>

\* agent.py:22-41, 43-44
IssueStart ==
    /\ ipc = "start"
    /\ IF ~Truthy(Get(istate, "issue_url"))
       THEN /\ IssueEmit("system", <<"No issue_url found in the session state">>)
            /\ ipc' = "agent_done"
            /\ iinvoked' = iinvoked
       ELSE /\ IssueInvoke("get_issue_details")
            /\ ievents' = ievents
    /\ UNCHANGED <<issue_url, istate, icompleted>>
    /\ UNCHANGED <<reviewvars, tin, tout>>

\* agent.py:44-45, 90-91, 169-170, 200-201: the run_async loop of the
\* running stage ends; the stage left a value under its output_key, or
\* nothing (always nothing when it has no output_key)
IssueStageReturns ==
    /\ ipc \in {"get_issue_details", "analyze_issue", "implement_changes",
                "create_pr"}
    /\ \E k \in 1..Len(IssueOutputs) :
           /\ OutputKey(ipc) = "" => k = 1
           /\ istate' = IF IssueOutputs[k].t # "none"
                        THEN Put(istate, OutputKey(ipc), IssueOutputs[k])
                        ELSE istate
    /\ icompleted' = Append(icompleted, ipc)
    /\ ipc' = "after_" \o ipc
    /\ UNCHANGED <<issue_url, ievents, iinvoked>>
    /\ UNCHANGED <<reviewvars, tin, tout>>

\* agent.py:47-54, 57-90: "issue_details" not in state
AfterGetIssueDetails ==
    /\ ipc = "after_get_issue_details"
    /\ IF "issue_details" \notin DOMAIN istate
       THEN /\ IssueEmit("system", <<"No issue_details found in the session state">>)
            /\ ipc' = "agent_done"
            /\ iinvoked' = iinvoked
       ELSE /\ IssueInvoke("analyze_issue")
            /\ ievents' = ievents
    /\ UNCHANGED <<issue_url, istate, icompleted>>
    /\ UNCHANGED <<reviewvars, tin, tout>>

\* agent.py:93-98, 101-169: "analysis" not in state
AfterAnalyzeIssue ==
    /\ ipc = "after_analyze_issue"
    /\ IF "analysis" \notin DOMAIN istate
       THEN /\ IssueEmit("system", <<"No analysis found in the session state">>)
            /\ ipc' = "agent_done"
            /\ iinvoked' = iinvoked
       ELSE /\ IssueInvoke("implement_changes")
            /\ ievents' = ievents
    /\ UNCHANGED <<issue_url, istate, icompleted>>
    /\ UNCHANGED <<reviewvars, tin, tout>>

\* agent.py:170-200: nothing is tested between the last two stages
AfterImplementChanges ==
    /\ ipc = "after_implement_changes"
    /\ IssueInvoke("create_pr")
    /\ UNCHANGED <<issue_url, istate, ievents, icompleted>>
    /\ UNCHANGED <<reviewvars, tin, tout>>

\* agent.py:203-207: the pull-request text is yielded when it is there
AfterCreatePr ==
    /\ ipc = "after_create_pr"
    /\ IF "pr_output" \in DOMAIN istate
       THEN IssueEmit("user", istate["pr_output"].s)
       ELSE ievents' = ievents
    /\ ipc' = "agent_done"
    /\ UNCHANGED <<issue_url, istate, iinvoked, icompleted>>
    /\ UNCHANGED <<reviewvars, tin, tout>>

\* a stage raises: nothing in agent.py or main.py catches it
IssueStageRaises ==
    /\ ipc \in {"get_issue_details", "analyze_issue", "implement_changes",
                "create_pr"}
    /\ ipc' = "raised"
    /\ UNCHANGED <<issue_url, istate, ievents, iinvoked, icompleted>>
    /\ UNCHANGED <<reviewvars, tin, tout>>

\* main.py:57-62: the events were logged, main returns
IssueMainReturns ==
    /\ ipc = "agent_done"
    /\ ipc' = "exit"
    /\ UNCHANGED <<issue_url, istate, ievents, iinvoked, icompleted>>
    /\ UNCHANGED <<reviewvars, tin, tout>>

IssueInit ==
    /\ ipc = "main"
    /\ \E sp \in 1..Len(SchemePrefixes), au \in 1..Len(Authorities) :
           \E pa \in 1..Len(IssuePaths) :
               issue_url = PyChars(SchemePrefixes[sp] \o Authorities[au]
                                       \o IssuePaths[pa])
    /\ istate = EmptyMap
    /\ ievents = <<>>
    /\ iinvoked = <<>>
    /\ icompleted = <<>>
    /\ ReviewIdle
    /\ ToolIdle

IssueNext ==
    \/ IssueMain
    \/ IssueStart
    \/ IssueStageReturns
    \/ AfterGetIssueDetails
    \/ AfterAnalyzeIssue
    \/ AfterImplementChanges
    \/ AfterCreatePr
    \/ IssueStageRaises
    \/ IssueMainReturns

SpecIssue == IssueInit /\ [][IssueNext]_vars

(***************************************************************************)
(* The command tools (src/tools/bash_tool.py)                              *)
(***************************************************************************)
issuevars == <<ipc, issue_url, istate, ievents, iinvoked, icompleted>>

\* program names: gh, git, git-lfs
Commands == <<<<"g", "h">>, <<"g", "i", "t">>, <<"g", "i", "t", "-", "l", "f", "s">>>>

\* the allowlists get_bash_tool is called with
AllowLists ==
    UNION {[1..n -> {Commands[k] : k \in 1..Len(Commands)}] :
              n \in 0..MaxTools}

\* truncate_length: unset, or a number
Budgets == <<PyNone>> \o [k \in 1..(MaxOut + 2) |-> PyNum(k - 2)]

\* what a child writes to a pipe: the byte 0x61, and the bytes 0xC3 0xA9,
\* which are the UTF-8 encoding of one character when in this order
ByteStrings == UNION {[1..n -> {"61", "C3", "A9"}] : n \in 0..MaxOut}

\* bytes.decode("utf-8"): the text, or UnicodeDecodeError
RECURSIVE Decode(_)
Decode(b) ==
    IF b = <<>> THEN [ok |-> TRUE, s |-> <<>>]
    ELSE IF Head(b) = "61"
         THEN LET r == Decode(Tail(b))
              IN  [ok |-> r.ok, s |-> <<"a">> \o r.s]
         ELSE IF Head(b) = "C3" /\ Len(b) >= 2 /\ b[2] = "A9"
              THEN LET r == Decode(SubSeq(b, 3, Len(b)))
                   IN  [ok |-> r.ok, s |-> <<"e'">> \o r.s]
              ELSE [ok |-> FALSE, s |-> <<>>]

\* str.isidentifier for the characters of the model
IsIdentifier(s) ==
    /\ s # <<>>
    /\ s[1] \in Alpha \cup {"_"}
    /\ \A k \in 1..Len(s) : s[k] \in Alpha \cup Digits \cup {"_"}

\* bash_tool.py:6: the marker imported from patched_adk.config
TruncateStr == <<"truncate_str">>

\* s[:n]
SliceTo(s, n) ==
    IF n >= 0
    THEN SubSeq(s, 1, IF n < Len(s) THEN n ELSE Len(s))
    ELSE SubSeq(s, 1, IF Len(s) + n > 0 THEN Len(s) + n ELSE 0)

\* the output is cut as soon as it reaches the budget
Truncate_AtBudget(output, truncate_length) ==
    IF Truthy(truncate_length) /\ Len(output) >= truncate_length.n
    THEN SliceTo(output, truncate_length.n) \o TruncateStr
    ELSE output

\* bash_tool.py:42-43
Truncate(output, truncate_length) ==
    IF Truthy(truncate_length) /\ Len(output) > truncate_length.n
    THEN SliceTo(output, truncate_length.n) \o TruncateStr
    ELSE output

\* bash_tool.py:11-51: the function compiled for one command
CreateRuntimeCliTool(command, truncate_length) ==
    [func_name |-> command \o <<"_", "c", "l", "i">>, program |-> command,
     truncate_length |-> truncate_length]

\* bash_tool.py:26-45: the body of the compiled function, given what the
\* child process did; `error` holds the parts of the text of lines 38, 40
Cli(tool, args, proc) ==
    IF proc.returncode # 0
    THEN LET err == Decode(proc.stderr)
         IN  IF ~err.ok
             THEN [raised |-> "UnicodeDecodeError", kind |-> "none",
                   text |-> <<>>, error |-> PyNone]
             ELSE [raised |-> "", kind |-> "error", text |-> <<>>,
                   error |-> [prefix |-> "Error: Command ",
                              command |-> tool.program, args |-> args,
                              returncode |-> proc.returncode,
                              err_msg |-> err.s]]
    ELSE LET out == Decode(proc.stdout)
         IN  IF ~out.ok
             THEN [raised |-> "UnicodeDecodeError", kind |-> "none",
                   text |-> <<>>, error |-> PyNone]
             ELSE [raised |-> "", kind |-> "output",
                   text |-> Truncate(out.s, tool.truncate_length),
                   error |-> PyNone]

\* the argument lists a planner passes
ArgLists == <<<<>>, <<Commands[2]>>, <<Commands[3], Commands[1]>>>>

\* what the child does: it succeeds and writes stdout, or exits non-zero
\* and writes stderr
Procs ==
    [returncode : {0}, stdout : ByteStrings, stderr : {<<>>}]
        \cup [returncode : {3}, stdout : {<<>>}, stderr : ByteStrings]

\* bash_tool.py:53-56 with 12, 26, 47: one function per name; the generated
\* text compiles when the function name it declares is an identifier
GetBashTool ==
    /\ tin.t = "bash"
    /\ tout.t = "none"
    /\ LET tools == [k \in 1..Len(tin.allowed_commands) |->
                        CreateRuntimeCliTool(tin.allowed_commands[k],
                                             tin.truncate_length)]
       IN  tout' = IF \E k \in 1..Len(tools) :
                          ~IsIdentifier(tools[k].func_name)
                   THEN [t |-> "tools", raised |-> "SyntaxError",
                         tools |-> <<>>]
                   ELSE [t |-> "tools", raised |-> "", tools |-> tools]
    /\ UNCHANGED <<tin, reviewvars, issuevars>>

\* tool k of the list is called with args, and creates the child
\* asyncio.create_subprocess_exec is given
CallCli ==
    /\ tin.t = "bash"
    /\ tout.t = "tools"
    /\ tout.raised = ""
    /\ \E k \in 1..Len(tout.tools), a \in 1..Len(ArgLists), proc \in Procs :
           tout' = [t |-> "ret", k |-> k, args |-> ArgLists[a],
                    proc |-> proc,
                    executed |-> tout.tools[k].program,
                    truncate_length |-> tout.tools[k].truncate_length,
                    ret |-> Cli(tout.tools[k], ArgLists[a], proc)]
    /\ UNCHANGED <<tin, reviewvars, issuevars>>

BashInit ==
    /\ \E al \in AllowLists, b \in 1..Len(Budgets) :
           tin = [t |-> "bash", allowed_commands |-> al,
                  truncate_length |-> Budgets[b]]
    /\ tout = PyNone
    /\ ReviewIdle
    /\ IssueIdle

BashNext ==
    \/ GetBashTool
    \/ CallCli

SpecBash == BashInit /\ [][BashNext]_vars

(***************************************************************************)
(* The search tools (src/tools/grep_tool.py)                               *)
(***************************************************************************)
\* grep_tool.py:12-75
BLACKLIST_PATTERNS ==
    <<<<".", "g", "i", "t", "/", "*">>,
      <<"n", "o", "d", "e", "_", "m", "o", "d", "u", "l", "e", "s", "/", "*">>,
      <<".", "n", "e", "x", "t", "/", "*">>,
      <<".", "t", "u", "r", "b", "o", "/", "*">>,
      <<"*", ".", "w", "a", "s", "m">>,
      <<"*", ".", "w", "o", "f", "f", "2">>,
      <<"*", ".", "p", "a", "c", "k">>,
      <<"*", ".", "p", "a", "c", "k", ".", "g", "z">>,
      <<"*", ".", "t", "a", "r", ".", "z", "s", "t">>,
      <<"*", ".", "p", "y", "c">>,
      <<"_", "_", "p", "y", "c", "a", "c", "h", "e", "_", "_", "/", "*">>,
      <<"*", ".", "s", "o">>,
      <<"*", ".", "d", "l", "l">>,
      <<"*", ".", "d", "y", "l", "i", "b">>,
      <<"*", ".", "e", "x", "e">>,
      <<"*", ".", "b", "i", "n">>,
      <<"*", ".", "d", "a", "t">>,
      <<"*", ".", "d", "b">>,
      <<"*", ".", "s", "q", "l", "i", "t", "e">>,
      <<"*", ".", "s", "q", "l", "i", "t", "e", "3">>,
      <<"*", ".", "l", "o", "g">>,
      <<"*", ".", "c", "a", "c", "h", "e">>,
      <<"*", ".", "t", "m", "p">>,
      <<"*", ".", "t", "e", "m", "p">>,
      <<"*", ".", "s", "w", "p">>,
      <<"*", ".", "s", "w", "o">>,
      <<"*", ".", "b", "a", "k">>,
      <<"*", ".", "b", "a", "c", "k", "u", "p">>,
      <<"*", ".", "o", "r", "i", "g">>,
      <<"*", ".", "r", "e", "j">>,
      <<"*", ".", "p", "a", "t", "c", "h">>,
      <<"*", ".", "d", "i", "f", "f">>,
      <<"*", ".", "t", "a", "r">>,
      <<"*", ".", "g", "z">>,
      <<"*", ".", "z", "i", "p">>,
      <<"*", ".", "r", "a", "r">>,
      <<"*", ".", "7", "z">>,
      <<"*", ".", "b", "z", "2">>,
      <<"*", ".", "x", "z">>,
      <<"*", ".", "l", "z", "m", "a">>,
      <<"*", ".", "l", "z", "4">>,
      <<"*", ".", "z", "s", "t">>,
      <<"*", ".", "t", "g", "z">>,
      <<"*", ".", "t", "b", "z", "2">>,
      <<"*", ".", "t", "x", "z">>,
      <<"*", ".", "t", "l", "z">>,
      <<"*", ".", "t", "l", "z", "4">>,
      <<"*", ".", "t", "z", "s", "t">>,
      <<"*", ".", "p", "d", "f">>,
      <<"*", ".", "d", "o", "c", "x">>,
      <<"*", ".", "d", "o", "c">>,
      <<"*", ".", "x", "l", "s">>,
      <<"*", ".", "x", "l", "s", "x">>,
      <<"*", ".", "p", "p", "t">>,
      <<"*", ".", "p", "p", "t", "x">>,
      <<"*", ".", "p", "n", "g">>,
      <<"*", ".", "j", "p", "g">>,
      <<"*", ".", "j", "p", "e", "g">>,
      <<"*", ".", "g", "i", "f">>,
      <<"*", ".", "b", "m", "p">>,
      <<"*", ".", "t", "i", "f", "f">>,
      <<"*", ".", "i", "c", "o">>>>

\* grep_tool.py:78
FILE_READ_CHAR_LIMIT == 5000

\* grep_tool.py:79
FILE_READ_TRUNCATED_TEXT == <<"<TRUNCATED>">>

\* fnmatch.fnmatchcase(s, p): `*` matches any run of characters, `?` any
\* one character (the patterns of the model hold no bracket); when nothing
\* but plain characters follow a `*`, s has to end with them
RECURSIVE Fnmatch(_, _)
Fnmatch(s, p) ==
    IF p = <<>> THEN s = <<>>
    ELSE IF Head(p) = "*"
         THEN IF \A k \in 2..Len(p) : p[k] \notin {"*", "?"}
              THEN /\ Len(s) >= Len(p) - 1
                   /\ SubSeq(s, Len(s) - Len(p) + 2, Len(s)) = Tail(p)
              ELSE \E k \in 1..(Len(s) + 1) :
                       Fnmatch(SubSeq(s, k, Len(s)), Tail(p))
         ELSE /\ s # <<>>
              /\ Head(p) = "?" \/ Head(p) = Head(s)
              /\ Fnmatch(Tail(s), Tail(p))

\* os.path.normcase of posixpath: the text itself
NormCase(s) == s

\* grep_tool.py:150-152, 262-264: fnmatch.fnmatch normalises the case of
\* both texts with os.path.normcase, fnmatch.fnmatchcase does not
Matcher(is_case_sensitive, s, p) ==
    IF is_case_sensitive THEN Fnmatch(s, p)
    ELSE Fnmatch(NormCase(s), NormCase(p))

\* str(path) of an absolute path given by its parts
PathStr(parts) == IF parts = <<>> THEN <<"/">> ELSE JoinPath(parts)

\* grep_tool.py:81-84
ShouldSkipPath(parts) ==
    \E k \in 1..Len(BLACKLIST_PATTERNS) :
        Fnmatch(NormCase(PathStr(parts)), NormCase(BLACKLIST_PATTERNS[k]))

\* GrepTools.__init__ (grep_tool.py:87-90): Path.cwd(), here /w
WorkingDir == <<<<"w">>>>

\* every entry a tree can hold, by the parts of its path; /w and /w2 with
\* its file are in each tree, the others come and go in groups
Entries ==
    {[path |-> <<<<"w">>>>, kind |-> "dir", group |-> "base",
      lines |-> <<>>, target |-> <<>>],
     [path |-> <<<<"w", "2">>>>, kind |-> "dir", group |-> "base",
      lines |-> <<>>, target |-> <<>>],
     [path |-> <<<<"w", "2">>, <<"s", "e", "c", "r", "e", "t", ".", "t", "x", "t">>>>, kind |-> "file", group |-> "base",
      lines |-> <<<<"k", "e", "y">>>>, target |-> <<>>],
     [path |-> <<<<"w">>, <<".", "g", "i", "t">>>>, kind |-> "dir", group |-> "vcs",
      lines |-> <<>>, target |-> <<>>],
     [path |-> <<<<"w">>, <<".", "g", "i", "t">>, <<"c", "o", "n", "f", "i", "g">>>>, kind |-> "file", group |-> "vcs",
      lines |-> <<<<"a", "b">>>>, target |-> <<>>],
     [path |-> <<<<"w">>, <<"n", "o", "d", "e", "_", "m", "o", "d", "u", "l", "e", "s">>>>, kind |-> "dir", group |-> "node",
      lines |-> <<>>, target |-> <<>>],
     [path |-> <<<<"w">>, <<"n", "o", "d", "e", "_", "m", "o", "d", "u", "l", "e", "s">>, <<"a", ".", "j", "s">>>>, kind |-> "file",
      group |-> "node", lines |-> <<<<"a", "b">>>>, target |-> <<>>],
     [path |-> <<<<"w">>, <<"_", "_", "p", "y", "c", "a", "c", "h", "e", "_", "_">>>>, kind |-> "dir", group |-> "cache",
      lines |-> <<>>, target |-> <<>>],
     [path |-> <<<<"w">>, <<"_", "_", "p", "y", "c", "a", "c", "h", "e", "_", "_">>, <<"m", ".", "p", "y", "c">>>>, kind |-> "file",
      group |-> "cache", lines |-> <<<<"a", "b">>>>, target |-> <<>>],
     [path |-> <<<<"w">>, <<"l", "i", "b", ".", "s", "o">>>>, kind |-> "file", group |-> "cache",
      lines |-> <<[k \in 1..2500 |-> "x"], [k \in 1..2500 |-> "x"]>>,
      target |-> <<>>],
     [path |-> <<<<"w">>, <<"s", "r", "c">>>>, kind |-> "dir", group |-> "src",
      lines |-> <<>>, target |-> <<>>],
     [path |-> <<<<"w">>, <<"s", "r", "c">>, <<"a", ".", "p", "y">>>>, kind |-> "file", group |-> "src",
      lines |-> <<<<"a", "b">>, <<"k", "e", "y">>, <<" ", "k", "e", "y">>,
                  <<"k", "e", "y", "=", "1">>>>, target |-> <<>>],
     [path |-> <<<<"w">>, <<"s", "r", "c">>, <<"s", "u", "b">>>>, kind |-> "dir", group |-> "src",
      lines |-> <<>>, target |-> <<>>],
     [path |-> <<<<"w">>, <<"s", "r", "c">>, <<"s", "u", "b">>, <<"b", ".", "p", "y">>>>, kind |-> "file",
      group |-> "src", lines |-> <<<<"b">>>>, target |-> <<>>],
     [path |-> <<<<"w">>, <<"l", "i", "n", "k">>>>, kind |-> "link", group |-> "link",
      lines |-> <<>>, target |-> <<<<"w", "2">>>>]}

\* the file system that holds the groups gs: path |-> entry
FileSystem(gs) ==
    LET es == {e \in Entries : e.group \in gs \cup {"base"}}
    IN  [p \in {e.path : e \in es} |-> CHOOSE e \in es : e.path = p]

\* pathlib: the parts of a path text ("." and empty parts are dropped)
PathParts(s) ==
    SelectSeq(Split(s, "/"), LAMBDA part : part # <<>> /\ part # <<".">>)

Parent(parts) ==
    IF parts = <<>> THEN <<>> ELSE SubSeq(parts, 1, Len(parts) - 1)

\* os.path.realpath: `..` steps up, a symbolic link is replaced by its
\* target, a name that does not exist is kept
RECURSIVE ResolveFrom(_, _, _)
ResolveFrom(fs, cur, parts) ==
    IF parts = <<>> THEN cur
    ELSE IF Head(parts) = <<".", ".">>
         THEN ResolveFrom(fs, Parent(cur), Tail(parts))
         ELSE LET nxt == Append(cur, Head(parts))
              IN  IF nxt \in DOMAIN fs /\ fs[nxt].kind = "link"
                  THEN ResolveFrom(fs, fs[nxt].target, Tail(parts))
                  ELSE ResolveFrom(fs, nxt, Tail(parts))

\* Path(path).resolve(), the process being in the working directory
Resolve(fs, path) ==
    ResolveFrom(fs,
                IF path # <<>> /\ path[1] = "/" THEN <<>> ELSE WorkingDir,
                PathParts(path))

\* q is p or below p
IsUnder(q, p) == Len(q) >= Len(p) /\ SubSeq(q, 1, Len(p)) = p

\* path.relative_to(top).parts
RelativeTo(q, top) == SubSeq(q, Len(top) + 1, Len(q))

\* the two path texts are compared instead of the parts
NotConfined_ByText(resolved_path) ==
    ~StartsWith(PathStr(resolved_path), PathStr(WorkingDir))

\* grep_tool.py:135, 252, 328: working_dir not in resolved_path.parents
\* and working_dir != resolved_path
NotConfined(resolved_path) ==
    /\ ~\E n \in 0..(Len(resolved_path) - 1) :
            SubSeq(resolved_path, 1, n) = WorkingDir
    /\ WorkingDir # resolved_path

\* Path.is_file(): a symbolic link counts as what it points to
PathIsFile(fs, p) ==
    /\ p \in DOMAIN fs
    /\ \/ fs[p].kind = "file"
       \/ /\ fs[p].kind = "link"
          /\ fs[p].target \in DOMAIN fs
          /\ fs[fs[p].target].kind = "file"

\* any(part.startswith(".") ...)
HasDotPart(parts) == \E k \in 1..Len(parts) : StartsWith(parts[k], <<".">>)

\* what a tool call returns: the kind of text, what it lists, and (history)
\* the files whose content the call read
Ret(fn, kind, out, reads) ==
    [t |-> "grep", fn |-> fn, kind |-> kind, out |-> out, reads |-> reads]

\* os.walk(top), grep_tool.py:157-163: root r is reached when its parent is,
\* r is a real directory and the parent's loop body did not prune it
RECURSIVE Walked(_, _, _, _)
Walked(fs, top, depth, r) ==
    \/ r = top
    \/ /\ Len(r) > Len(top)
       /\ r \in DOMAIN fs
       /\ fs[r].kind = "dir"
       /\ Walked(fs, top, depth, Parent(r))
       /\ ~(/\ Len(Parent(r)) - Len(top) <= depth
            /\ ShouldSkipPath(r))

\* grep_tool.py:157-183: the entries the loop body lets through
Listed(fs, top, depth, is_case_sensitive, unix_pattern) ==
    {c \in DOMAIN fs :
        /\ Len(c) > Len(top)
        /\ IsUnder(c, top)
        /\ Walked(fs, top, depth, Parent(c))
        /\ Len(Parent(c)) - Len(top) <= depth
        /\ ~ShouldSkipPath(c)
        /\ ~HasDotPart(RelativeTo(c, top))
        /\ Matcher(is_case_sensitive, PathStr(c), unix_pattern)}

\* grep_tool.py:132-133, 247-248
Widen(unix_pattern) ==
    IF \E k \in 1..Len(unix_pattern) : unix_pattern[k] = "*"
    THEN unix_pattern
    ELSE <<"*">> \o unix_pattern \o <<"*">>

\* grep_tool.py:92-196
FindFilesResult(fs, path, unix_pattern, depth, is_case_sensitive, kwargs) ==
    LET resolved_path == Resolve(fs, path)
        pattern == Widen(unix_pattern)
        listed == Listed(fs, resolved_path, depth, is_case_sensitive, pattern)
    IN  IF kwargs
        THEN Ret("find_files", "unexpected_arguments", <<>>, {})
        ELSE IF NotConfined(resolved_path)
        THEN Ret("find_files", "not_a_subdirectory", <<>>, {})
        ELSE IF ~(resolved_path = <<>> \/ resolved_path \in DOMAIN fs)
        THEN Ret("find_files", "does_not_exist", <<>>, {})
        ELSE IF PathIsFile(fs, resolved_path)
        THEN Ret("find_files", "is_a_file", <<>>, {})
        ELSE Ret("find_files", "listing",
                 [files |-> {RelativeTo(c, resolved_path) :
                                c \in {x \in listed : PathIsFile(fs, x)}},
                  directories |-> {RelativeTo(c, resolved_path) :
                                c \in {x \in listed : ~PathIsFile(fs, x)}}],
                 {})

\* grep_tool.py:266-278: the files the search opens
SearchPaths(fs, resolved_path, recursive) ==
    IF PathIsFile(fs, resolved_path) THEN {resolved_path}
    ELSE IF recursive
    THEN {p \in DOMAIN fs :
             /\ Len(p) > Len(resolved_path)
             /\ IsUnder(p, resolved_path)
             /\ \A n \in (Len(resolved_path) + 1)..(Len(p) - 1) :
                    fs[SubSeq(p, 1, n)].kind = "dir"
             /\ ~HasDotPart(RelativeTo(p, resolved_path))
             /\ PathIsFile(fs, p)
             /\ ~ShouldSkipPath(p)}
    ELSE {p \in DOMAIN fs :
             /\ Parent(p) = resolved_path
             /\ PathIsFile(fs, p)
             /\ ~ShouldSkipPath(p)}

\* the lines open(p) yields: a symbolic link is followed
LinesOf(fs, p) ==
    IF fs[p].kind = "link" THEN fs[fs[p].target].lines ELSE fs[p].lines

\* grep_tool.py:198-310; a line is matched with its line end, and reported
\* stripped, or as too long (:286-291)
FindTextInFilesResult(fs, unix_pattern, path, recursive, is_case_sensitive, kwargs, char_limit) ==
    LET pattern == Widen(unix_pattern)
        resolved_path == Resolve(fs, path)
        paths == SearchPaths(fs, resolved_path, recursive)
        content(line, k) ==
            IF Len(line) + 1 > char_limit
            THEN [line |-> k, text |-> <<"<Too many characters>">>]
            ELSE [line |-> k, text |-> line]
        matches(p) ==
            {content(LinesOf(fs, p)[k], k) :
                k \in {j \in 1..Len(LinesOf(fs, p)) :
                          Matcher(is_case_sensitive,
                                  LinesOf(fs, p)[j] \o <<"\n">>, pattern)}}
        file_matches == {p \in paths : matches(p) # {}}
    IN  IF kwargs
        THEN Ret("find_text_in_files", "unexpected_arguments", <<>>, {})
        ELSE IF unix_pattern = <<"*">>
        THEN Ret("find_text_in_files", "too_broad", <<>>, {})
        ELSE IF NotConfined(resolved_path)
        THEN Ret("find_text_in_files", "not_a_subdirectory", <<>>, {})
        ELSE IF ~(resolved_path = <<>> \/ resolved_path \in DOMAIN fs)
        THEN Ret("find_text_in_files", "does_not_exist", <<>>, {})
        ELSE IF file_matches = {}
        THEN Ret("find_text_in_files", "no_matches", <<>>, paths)
        ELSE Ret("find_text_in_files", "matches",
                 [p \in {RelativeTo(f, resolved_path) : f \in file_matches}
                     |-> matches(resolved_path \o p)],
                 paths)

\* "".join(lines), every line with its line end
RECURSIVE JoinLines(_)
JoinLines(lines) ==
    IF lines = <<>> THEN <<>>
    ELSE Head(lines) \o <<"\n">> \o JoinLines(Tail(lines))

\* the line numbered end_line is left out
ReadFileResult_EndExclusive(fs, path, start_line, end_line) ==
    LET resolved_path == Resolve(fs, path)
        lines == LinesOf(fs, resolved_path)
        first == IF start_line.t = "none" THEN 1 ELSE start_line.n
        last == IF end_line.t = "none" THEN Len(lines) ELSE end_line.n
        picked == SelectSeq([k \in 1..Len(lines) |->
                                [k |-> k, line |-> lines[k]]],
                            LAMBDA x : x.k >= first /\ x.k < last)
        content == JoinLines([k \in 1..Len(picked) |-> picked[k].line])
    IN  IF NotConfined(resolved_path)
        THEN Ret("read_file", "not_a_subdirectory", <<>>, {})
        ELSE IF ~PathIsFile(fs, resolved_path)
        THEN Ret("read_file", "not_a_file", <<>>, {})
        ELSE Ret("read_file", "content",
                 IF Len(content) > FILE_READ_CHAR_LIMIT
                 THEN SubSeq(content, 1, FILE_READ_CHAR_LIMIT) \o <<"\n">>
                          \o FILE_READ_TRUNCATED_TEXT
                 ELSE content,
                 {resolved_path})

\* grep_tool.py:312-366: the lines start_line..end_line that exist
\* (:344-358), cut at the limit (:339-341, 355-358)
ReadFileResult(fs, path, start_line, end_line) ==
    LET resolved_path == Resolve(fs, path)
        lines == LinesOf(fs, resolved_path)
        first == IF start_line.t = "none" THEN 1 ELSE start_line.n
        last == IF end_line.t = "none" THEN Len(lines) ELSE end_line.n
        picked == SelectSeq([k \in 1..Len(lines) |->
                                [k |-> k, line |-> lines[k]]],
                            LAMBDA x : x.k >= first /\ x.k <= last)
        content == JoinLines([k \in 1..Len(picked) |-> picked[k].line])
    IN  IF NotConfined(resolved_path)
        THEN Ret("read_file", "not_a_subdirectory", <<>>, {})
        ELSE IF ~PathIsFile(fs, resolved_path)
        THEN Ret("read_file", "not_a_file", <<>>, {})
        ELSE Ret("read_file", "content",
                 IF Len(content) > FILE_READ_CHAR_LIMIT
                 THEN SubSeq(content, 1, FILE_READ_CHAR_LIMIT) \o <<"\n">>
                          \o FILE_READ_TRUNCATED_TEXT
                 ELSE content,
                 {resolved_path})

\* the path arguments a planner passes
GrepPaths ==
    <<<<".">>, <<"s", "r", "c">>, <<"s", "r", "c", "/", "a", ".", "p", "y">>, <<".", ".", "/", "w", "2">>, <<"/", "w", "2", "/", "s", "e", "c", "r", "e", "t", ".", "t", "x", "t">>, <<"l", "i", "n", "k">>, <<"n", "o", "p", "e">>,
      <<".", "g", "i", "t", "/", "c", "o", "n", "f", "i", "g">>,
      <<"_", "_", "p", "y", "c", "a", "c", "h", "e", "_", "_", "/", "m", ".", "p", "y", "c">>,
      <<"s", "r", "c", "/", ".", ".", "/", ".", ".", "/", "w", "2", "/", "s", "e", "c", "r", "e", "t", ".", "t", "x", "t">>>>

\* the patterns a planner passes
GrepPatterns ==
    <<<<"*">>, <<"a">>, <<"*", ".", "p", "y">>, <<"k", "e", "y">>,
      <<"k", "e", "?">>, <<"a", "*", ".", "p", "y">>,
      <<"K", "E", "Y">>, <<"*", "k", "e", "y">>, <<"k", "*">>>>

FindFiles ==
    /\ tin.t = "find_files"
    /\ tout.t = "none"
    /\ tout' = FindFilesResult(FileSystem(tin.groups), tin.path,
                               tin.unix_pattern, tin.depth,
                               tin.is_case_sensitive, tin.kwargs)
    /\ UNCHANGED <<tin, reviewvars, issuevars>>

FindTextInFiles ==
    /\ tin.t = "find_text_in_files"
    /\ tout.t = "none"
    /\ tout' = FindTextInFilesResult(FileSystem(tin.groups),
                                     tin.unix_pattern, tin.path,
                                     tin.recursive, tin.is_case_sensitive,
                                     tin.kwargs, tin.char_limit)
    /\ UNCHANGED <<tin, reviewvars, issuevars>>

ReadFile ==
    /\ tin.t = "read_file"
    /\ tout.t = "none"
    /\ tout' = ReadFileResult(FileSystem(tin.groups), tin.path,
                              tin.start_line, tin.end_line)
    /\ UNCHANGED <<tin, reviewvars, issuevars>>

\* one call: a tree, a path and the other arguments; read_file is also
\* called on the large file lib.so; start_line and end_line are unset or a
\* line number, and find_text_char_limit (imported
\* from patched_adk.config) is small or large
GrepInit ==
    /\ \E gs \in SUBSET {"vcs", "node", "cache", "src", "link"},
          pa \in 1..Len(GrepPaths) :
           \/ \E pt \in 1..Len(GrepPatterns), depth \in 0..MaxDepth,
                 cs \in BOOLEAN, kw \in BOOLEAN :
                  tin = [t |-> "find_files", groups |-> gs,
                         path |-> GrepPaths[pa],
                         unix_pattern |-> GrepPatterns[pt], depth |-> depth,
                         is_case_sensitive |-> cs, kwargs |-> kw]
           \/ \E pt \in 1..Len(GrepPatterns), rec \in BOOLEAN,
                 cs \in BOOLEAN, kw \in BOOLEAN, cl \in {2, 100} :
                  tin = [t |-> "find_text_in_files", groups |-> gs,
                         path |-> GrepPaths[pa],
                         unix_pattern |-> GrepPatterns[pt],
                         recursive |-> rec, is_case_sensitive |-> cs,
                         kwargs |-> kw, char_limit |-> cl]
           \/ \E sl, el \in {PyNone, PyNum(1), PyNum(2)}, big \in BOOLEAN :
                  tin = [t |-> "read_file", groups |-> gs,
                         path |-> IF big THEN <<"l", "i", "b", ".", "s", "o">>
                                  ELSE GrepPaths[pa],
                         start_line |-> sl, end_line |-> el]
    /\ tout = PyNone
    /\ ReviewIdle
    /\ IssueIdle

GrepNext ==
    \/ FindFiles
    \/ FindTextInFiles
    \/ ReadFile

SpecGrep == GrepInit /\ [][GrepNext]_vars

(***************************************************************************)
(* Tool calls inside the stages of a code-review run                       *)
(***************************************************************************)
\* agent.py:143, 190: the calls the planner of a review stage makes of
\* grep_tools.get_tools()
GrepCalls ==
    <<[t |-> "find_files", path |-> <<".", ".", "/", "w", "2">>, unix_pattern |-> <<"*">>],
      [t |-> "find_files", path |-> <<"n", "o", "p", "e">>, unix_pattern |-> <<"*">>],
      [t |-> "find_text_in_files", path |-> <<".">>, unix_pattern |-> <<"*">>],
      [t |-> "find_text_in_files", path |-> <<"s", "r", "c">>, unix_pattern |-> <<"k", "e", "y">>],
      [t |-> "read_file", path |-> <<"/", "w", "2", "/", "s", "e", "c", "r", "e", "t", ".", "t", "x", "t">>, unix_pattern |-> <<>>],
      [t |-> "read_file", path |-> <<"s", "r", "c", "/", "a", ".", "p", "y">>, unix_pattern |-> <<>>]>>

\* the call made with the defaults of the other arguments, on the tree
\* that holds the sources
GrepResult(call) ==
    LET fs == FileSystem({"src"})
    IN  CASE call.t = "find_files" ->
                 FindFilesResult(fs, call.path, call.unix_pattern, 1, FALSE,
                                 FALSE)
          [] call.t = "find_text_in_files" ->
                 FindTextInFilesResult(fs, call.unix_pattern, call.path, TRUE,
                                       FALSE, FALSE, 100)
          [] call.t = "read_file" ->
                 ReadFileResult(fs, call.path, PyNone, PyNone)

\* agent.py:112, 286 (tools=get_bash_tool(["gh"], truncate_length=10000))
\* with bash_tool.py:26-45: the planner of fetch_cluster or post_comment
\* calls gh_cli.  A text comes back to the planner; an exception leaves the
\* stage and reaches agent.py:310-311
GhCall ==
    /\ pc \in {"fetch_cluster", "post_comment"}
    /\ \E a \in 1..Len(ArgLists), proc \in Procs :
           LET ret == Cli(CreateRuntimeCliTool(Commands[1], PyNum(10000)),
                          ArgLists[a], proc)
           IN  IF ret.raised # ""
               THEN /\ Emit(UnexpectedError(ret.raised))
                    /\ tool_seen' = TRUE
               ELSE /\ tool_seen' = (tool_seen \/ ret.kind = "error")
                    /\ UNCHANGED <<pc, emitted, result, invoked>>
    /\ UNCHANGED <<rest, pr_url, state, clusters_data, clusters, all_reviews,
                   i, stdout, completed>>

\* agent.py:190 with grep_tool.py:92-366: the planner of a review stage
\* calls a search tool, which answers with a text: a listing, matches, a
\* content, or an error
GrepCall ==
    /\ pc = "review"
    /\ \E c \in 1..Len(GrepCalls) :
           tool_seen' =
               (tool_seen \/ GrepResult(GrepCalls[c]).kind
                                 \notin {"listing", "matches", "content"})
    /\ UNCHANGED <<rest, pr_url, state, clusters_data, clusters, all_reviews,
                   i, stdout, completed, pc, emitted, result, invoked>>

\* a run started with a pull-request URL of the expected form
RunInit ==
    /\ Init
    /\ pr_url = PyChars(EntryUrl(1, 1, <<ACME, WIDGETS, PULL, N42>>, <<>>))

RunNext ==
    \/ Next
    \/ GhCall
    \/ GrepCall

SpecRun == RunInit /\ [][RunNext]_vars

(***************************************************************************)
(* Two runs of run_agent in one event loop (src/agent/main.py:11-37)       *)
(***************************************************************************)
\* the coroutine in progress: its position, its locals, the state of the
\* session its own runner created (main.py:15-25) and its histories
Run ==
    [t |-> "run", pc |-> pc, pr_url |-> pr_url, state |-> state,
     clusters_data |-> clusters_data, clusters |-> clusters,
     all_reviews |-> all_reviews, i |-> i, emitted |-> emitted,
     result |-> result, stdout |-> stdout, invoked |-> invoked,
     completed |-> completed]

\* both coroutines work on one session state
Switch_SharedSession ==
    /\ other.t = "run"
    /\ pc \notin {"after_fetch", "after_review", "after_filter", "after_post"}
    /\ pc' = other.pc
    /\ pr_url' = other.pr_url
    /\ state' = state
    /\ clusters_data' = other.clusters_data
    /\ clusters' = other.clusters
    /\ all_reviews' = other.all_reviews
    /\ i' = other.i
    /\ emitted' = other.emitted
    /\ result' = other.result
    /\ stdout' = other.stdout
    /\ invoked' = other.invoked
    /\ completed' = other.completed
    /\ other' = Run
    /\ UNCHANGED <<tool_seen, issuevars, tin, tout>>

\* the event loop suspends the coroutine in progress at an await (the
\* session service, a stage's `async for`, a yielded event) and resumes the
\* other one, which finds its locals and its own session as it left them
Switch ==
    /\ other.t = "run"
    /\ pc \notin {"after_fetch", "after_review", "after_filter", "after_post"}
    /\ pc' = other.pc
    /\ pr_url' = other.pr_url
    /\ state' = other.state
    /\ clusters_data' = other.clusters_data
    /\ clusters' = other.clusters
    /\ all_reviews' = other.all_reviews
    /\ i' = other.i
    /\ emitted' = other.emitted
    /\ result' = other.result
    /\ stdout' = other.stdout
    /\ invoked' = other.invoked
    /\ completed' = other.completed
    /\ other' = Run
    /\ UNCHANGED <<tool_seen, issuevars, tin, tout>>

\* two calls of run_agent with different pull-request URLs
PairInit ==
    /\ pc = "main"
    /\ pr_url = PyChars(EntryUrl(1, 1, <<ACME, WIDGETS, PULL, N42>>, <<>>))
    /\ state = EmptyMap
    /\ clusters_data = PyNone
    /\ clusters = PyNone
    /\ all_reviews = <<>>
    /\ i = 0
    /\ emitted = <<>>
    /\ result = PyNone
    /\ stdout = <<>>
    /\ invoked = <<>>
    /\ completed = <<>>
    /\ tool_seen = FALSE
    /\ other = [t |-> "run", pc |-> "main",
                pr_url |-> PyChars(EntryUrl(1, 1, <<ACME, ACME, PULL, N42>>,
                                            <<>>)),
                state |-> EmptyMap, clusters_data |-> PyNone,
                clusters |-> PyNone, all_reviews |-> <<>>, i |-> 0,
                emitted |-> <<>>, result |-> PyNone, stdout |-> <<>>,
                invoked |-> <<>>, completed |-> <<>>]
    /\ IssueIdle
    /\ ToolIdle

\* a step of the run in progress, its clusters within the bound, or a
\* switch to the other run
PairNext ==
    \/ /\ Next
       /\ clusters'.t = "list" => Len(clusters'.items) <= MaxPairClusters
    \/ Switch

SpecPair == PairInit /\ [][PairNext]_vars

(***************************************************************************)
(* The two command-line entry points                                       *)
(***************************************************************************)
\* agent/main.py:74-75, resolve_issue/main.py:65-70: asyncio.run(main())
\* returns and the interpreter exits with 0, or an exception leaves main
\* and the interpreter prints the traceback and exits with 1
ExitStatus == IF ipc = "raised" THEN 1 ELSE 0

\* one of the two programs is started
CliInit == Init \/ IssueInit

CliNext ==
    \/ Next
    \/ IssueNext

SpecCli == CliInit /\ [][CliNext]_vars

(***************************************************************************)
(* Properties                                                              *)
(***************************************************************************)
RunResultKeys == {"success", "error", "clusters", "reviews", "summary"}

\* r is the failure record with message msg and no payload
IsFailure(r, msg) ==
    /\ r.t = "dict"
    /\ DOMAIN r.m = RunResultKeys
    /\ ~r.m.success.b
    /\ r.m.error.t = "text"
    /\ r.m.error.s = msg
    /\ r.m.clusters.t = "none"
    /\ r.m.reviews.t = "none"
    /\ r.m.summary.t = "none"

IsSuccess(r) == r.t = "dict" /\ r.m.success.b

\* the orchestrator has emitted a success record
Succeeded == \E k \in 1..Len(emitted) : IsSuccess(emitted[k])

ReviewIndex(s) == CHOOSE k \in 0..(Len(ReviewNames) - 1) : ReviewNames[k + 1] = s

IsReviewStage(s) == \E k \in 1..Len(ReviewNames) : ReviewNames[k] = s

\* the declared output key of a stage
KeyOf(s) ==
    CASE s = "fetch_cluster" -> "base_clusters"
      [] s = "filter_reviews" -> "reviewed_review"
      [] s = "post_comment" -> "output"
      [] OTHER -> ReviewKeys[ReviewIndex(s) + 1]

\* the message of the failure that names a stage
StageMessage(s) ==
    CASE s = "fetch_cluster" -> <<"No base_clusters found">>
      [] s = "filter_reviews" -> <<"Review filtering failed">>
      [] s = "post_comment" -> <<"Comment posting failed">>
      [] OTHER -> <<"Review failed for cluster ", DigitStr[ReviewIndex(s) + 1]>>

\* the position at which the orchestrator checks the output of a stage
CheckPc(s) ==
    CASE s = "fetch_cluster" -> "after_fetch"
      [] s = "filter_reviews" -> "after_filter"
      [] s = "post_comment" -> "after_post"
      [] OTHER -> "after_review"

Last(q) == q[Len(q)]

\* https://github.com/{owner}/{repo}/pull/{number}, a trailing "/" or a
\* query allowed
ShapeUrls ==
    {HTTPS \o <<":", "/", "/">> \o GITHUB \o JoinPath(<<o, r, PULL, n>>) \o su :
        o \in SegSet, r \in SegSet, n \in {x \in SegSet : IntParses(x)},
        su \in Suffixes}

\* C1: a non-empty entry URL that does not have the shape
\* https://github.com/{owner}/{repo}/pull/{number} never gets a stage
\* invoked, and its run ends with the failure 'Invalid pr_url format'.
C1_MalformedUrlRejected ==
    (pr_url.c # <<>> /\ pr_url.c \notin ShapeUrls) =>
        /\ invoked = <<>>
        /\ pc = "agent_done" =>
               /\ Len(emitted) = 1
               /\ IsFailure(emitted[1], <<"Invalid pr_url format">>)

\* C2: every Run Result the orchestrator emits has a null payload when
\* success is false, and clusters, reviews and summary all non-null and
\* non-empty when success is true.
C2_PayloadFollowsSuccess ==
    \A k \in 1..Len(emitted) :
        LET r == emitted[k].m
        IN  IF r.success.b
            THEN Truthy(r.clusters) /\ Truthy(r.reviews) /\ Truthy(r.summary)
            ELSE /\ r.clusters.t = "none"
                 /\ r.reviews.t = "none"
                 /\ r.summary.t = "none"

\* C3: when a stage has completed and its declared output key is absent
\* or empty, no later stage is invoked and, once the orchestrator has made
\* its check, the run has ended with the failure that names that stage.
C3_MissingOutputIsTerminal ==
    \A n \in 1..Len(completed) :
        LET s == completed[n]
        IN  ~Truthy(Get(state, KeyOf(s))) =>
                /\ Last(invoked) = s
                /\ \/ pc = CheckPc(s)
                   \/ /\ pc \in {"agent_done", "exit"}
                      /\ Len(emitted) = 1
                      /\ IsFailure(emitted[1], StageMessage(s))

\* a later stage (the filter) left its key empty and the run has ended
C3_Witness ==
    /\ pc = "agent_done"
    /\ Len(completed) >= 3
    /\ Last(completed) = "filter_reviews"
    /\ ~Truthy(Get(state, "reviewed_review"))
    /\ IsFailure(emitted[1], <<"Review filtering failed">>)

\* a cluster has the shape the stage-1 instruction asks for
ClusterShape(c) ==
    /\ c.t = "dict"
    /\ {"name", "description", "files"} \subseteq DOMAIN c.m
    /\ c.m.files.t = "list"

ClustersShape(d) ==
    /\ d.t = "dict"
    /\ "clusters" \in DOMAIN d.m
    /\ d.m.clusters.t = "list"
    /\ \A k \in 1..Len(d.m.clusters.items) : ClusterShape(d.m.clusters.items[k])

\* a review has the shape the stage-2 instruction asks for
ReviewShape(v) ==
    /\ v.t = "dict"
    /\ {"cluster_name", "reviews"} \subseteq DOMAIN v.m
    /\ v.m.reviews.t = "list"

\* C4: the clusters and the reviews of a successful result hold only
\* values of the expected shape (a stage output of another shape ends the
\* run in failure).
C4_OnlyExpectedShapesAccepted ==
    \A k \in 1..Len(emitted) :
        IsSuccess(emitted[k]) =>
            /\ ClustersShape(emitted[k].m.clusters)
            /\ \A j \in 1..Len(emitted[k].m.reviews.items) :
                   ReviewShape(emitted[k].m.reviews.items[j])

\* review_i is absent, empty or not decodable
ReviewUnusable(v) == ~Truthy(v) \/ v.t \in {"text", "chars"}

\* C5: when the review of cluster k has completed and left review_k
\* absent, empty or undecodable, then (once the orchestrator has looked at
\* it) the run has ended with exactly one record, the failure that names
\* index k with clusters, reviews and summary null, and review k is the
\* last stage invoked: no later review, no filter, no post-comment.
C5_FailedReviewAbortsRun ==
    \A k \in 0..(Len(ReviewNames) - 1) :
        ( /\ \E n \in 1..Len(completed) : completed[n] = ReviewNames[k + 1]
          /\ ReviewUnusable(Get(state, ReviewKeys[k + 1]))
          /\ pc # "after_review" ) =>
            /\ pc \in {"agent_done", "exit"}
            /\ Len(emitted) = 1
            /\ IsFailure(emitted[1], <<"Review failed for cluster ", DigitStr[k + 1]>>)
            /\ Last(invoked) = ReviewNames[k + 1]
            /\ pc = "exit" => stdout = emitted

\* the review of the second cluster returned text that is no JSON, after
\* the review of the first cluster had been collected
C5_Witness ==
    /\ pc = "agent_done"
    /\ Len(all_reviews) = 1
    /\ "review_1" \in DOMAIN state
    /\ state["review_1"].t = "text"
    /\ state["review_1"].s # <<>>
    /\ IsFailure(emitted[1], <<"Review failed for cluster ", "1">>)

\* the document stage 1 left under base_clusters, decoded
BaseDoc ==
    LET b == Get(state, "base_clusters") IN IF b.t = "json" THEN b.v ELSE b

\* the number of clusters it lists
ClusterCount == Len(Items(BaseDoc.m["clusters"]))

\* C6: a success record is emitted only when fetch_cluster, one review per
\* cluster (in index order), filter_reviews and post_comment have all been
\* invoked and have completed, each leaving a non-empty value under its
\* key, decodable where it is structured; the success record is the only
\* record and carries one review per cluster.
C6_SuccessNeedsAllStages ==
    Succeeded =>
        LET n == ClusterCount
        IN  /\ Len(emitted) = 1
            /\ Len(invoked) = n + 3
            /\ completed = invoked
            /\ invoked[1] = "fetch_cluster"
            /\ \A k \in 1..n : invoked[k + 1] = ReviewNames[k]
            /\ invoked[n + 2] = "filter_reviews"
            /\ invoked[n + 3] = "post_comment"
            /\ \A p \in 1..Len(invoked) : Truthy(Get(state, KeyOf(invoked[p])))
            /\ Get(state, "base_clusters").t \notin {"text", "chars"}
            /\ \A k \in 1..n : ~ReviewUnusable(Get(state, ReviewKeys[k]))
            /\ Len(emitted[1].m.reviews.items) = n

\* a run over two clusters has succeeded
C6_Witness == Succeeded /\ ClusterCount = 2 /\ pc = "agent_done"

\* the state part of C7
OneRunResult ==
    /\ Len(emitted) <= 1
    /\ Len(stdout) <= 1
    /\ pc = "agent_done" => Len(emitted) = 1
    /\ pc = "exit" => Len(stdout) = 1
    /\ pc \notin {"agent_done", "exit"} => emitted = <<>> /\ stdout = <<>>
    /\ (pc = "exit" /\ emitted # <<>>) => stdout = emitted

\* C7: a run emits exactly one Run Result: the orchestrator has emitted
\* none while it runs and exactly one when it has ended, main prints
\* exactly one document (the emitted record when there is one), and once a
\* record has been emitted no stage is invoked and no record is added.
C7_ExactlyOneRunResult ==
    /\ []OneRunResult
    /\ [][emitted # <<>> => (invoked' = invoked /\ emitted' = emitted)]_vars

\* a stage raised, and the run still ended with one record, printed once
C7_Witness ==
    /\ pc = "exit"
    /\ Len(emitted) = 1
    /\ IsFailure(emitted[1], <<"Unexpected error: ", "stage error">>)
    /\ stdout = emitted

\* C8: every document main prints is a mapping with the five keys
\* success, error, clusters, reviews and summary.
C8_PrintedResultWellShaped ==
    \A k \in 1..Len(stdout) :
        stdout[k].t = "dict" /\ DOMAIN stdout[k].m = RunResultKeys

\* the rank of a stage in the order of a run
Rank(s) ==
    CASE s = "fetch_cluster" -> 0
      [] s = "filter_reviews" -> Len(ReviewNames) + 1
      [] s = "post_comment" -> Len(ReviewNames) + 2
      [] OTHER -> ReviewIndex(s) + 1

\* C9: stages are invoked in the order fetch_cluster, review 0, review 1,
\* ..., filter_reviews, post_comment; at most one is active; and when a
\* stage begins every earlier stage has completed and left a non-empty
\* value under its key, the reviews before it having been collected.
C9_StagesRunInOrder ==
    /\ \A p \in 1..Len(invoked) :
           /\ p = 1 => invoked[p] = "fetch_cluster"
           /\ IsReviewStage(invoked[p]) => invoked[p] = ReviewNames[p - 1]
           /\ \A q \in 1..(p - 1) : Rank(invoked[q]) < Rank(invoked[p])
           /\ invoked[p] = "filter_reviews" => p = ClusterCount + 2
    /\ Len(completed) \in {Len(invoked), Len(invoked) - 1}
    /\ \A p \in 1..Len(completed) : completed[p] = invoked[p]
    /\ (Len(completed) = Len(invoked)) =>
           pc \notin {"fetch_cluster", "review", "filter_reviews", "post_comment"}
    /\ \A p \in 1..(Len(invoked) - 1) :
           /\ p <= Len(completed)
           /\ Truthy(Get(state, KeyOf(invoked[p])))
           /\ IsReviewStage(invoked[p]) => Len(all_reviews) >= p - 1

\* the second review and then the last stage have begun
C9_Witness ==
    /\ Len(invoked) = 5
    /\ invoked[3] = "review_cluster_1"
    /\ invoked[5] = "post_comment"

NoDuplicates(q) == \A a, b \in 1..Len(q) : a # b => q[a] # q[b]

\* a failure record has been emitted
FaultDetected == \E k \in 1..Len(emitted) : ~emitted[k].m.success.b

\* C10: no stage, and no review of a given cluster index, is invoked twice
\* in a run, and no step taken after a fault has been detected invokes a
\* stage.
C10_NoRetries ==
    [][NoDuplicates(invoked') /\ (FaultDetected => invoked' = invoked)]_vars

\* a fault was detected after several stages, and the run has ended
C10_Witness ==
    /\ pc = "exit"
    /\ FaultDetected
    /\ Len(invoked) >= 3

(***************************************************************************)
(* The issue workflow                                                      *)
(***************************************************************************)
\* C11: every stage of the issue workflow that has completed has a declared
\* output key, and when that key is absent or empty in the run state no
\* later stage was invoked
C11_IssueStagesChecked ==
    \A k \in 1..Len(icompleted) :
        LET stage == icompleted[k]
        IN  /\ OutputKey(stage) # ""
            /\ ~Truthy(Get(istate, OutputKey(stage)))
                   => Last(iinvoked) = stage

(***************************************************************************)
(* The command tools                                                       *)
(***************************************************************************)
\* C12: for every list of allowed names get_bash_tool returns exactly one
\* tool per name, and a call of tool k executes the k-th allowed name
\* whatever the arguments are
C12_OneToolPerName ==
    /\ tout.t = "tools"
           => /\ tout.raised = ""
              /\ Len(tout.tools) = Len(tin.allowed_commands)
    /\ tout.t = "ret" => tout.executed = tin.allowed_commands[tout.k]

\* C13: when the child exits with a non-zero code the call raises nothing
\* and returns the error text made of the program name, the argument list,
\* the exit code and the decoded stderr
C13_NonZeroExitIsText ==
    (tout.t = "ret" /\ tout.proc.returncode # 0)
        => /\ tout.ret.raised = ""
           /\ tout.ret.kind = "error"
           /\ tout.ret.error.command = tin.allowed_commands[tout.k]
           /\ tout.ret.error.args = tout.args
           /\ tout.ret.error.returncode = tout.proc.returncode
           /\ tout.ret.error.err_msg = Decode(tout.proc.stderr).s

\* the decoded stdout of the call that was made
StdoutText == Decode(tout.proc.stdout).s

\* the call that was made had a positive truncation budget
PositiveBudget ==
    IF tout.truncate_length.t = "num" THEN tout.truncate_length.n > 0
    ELSE FALSE

\* the call that was made had no budget, or the budget 0
NoBudget ==
    IF tout.truncate_length.t = "num" THEN tout.truncate_length.n = 0
    ELSE tout.truncate_length.t = "none"

\* C14: a successful command with stdout text out and budget b returns
\* out[:b] followed by the marker when b > 0 and len(out) > b, and out
\* itself when len(out) <= b or when b is 0 or unset
C14_TruncationRule ==
    (tout.t = "ret" /\ tout.ret.kind = "output")
        => /\ (PositiveBudget /\ Len(StdoutText) > tout.truncate_length.n)
                  => tout.ret.text
                         = SubSeq(StdoutText, 1, tout.truncate_length.n)
                               \o TruncateStr
           /\ (PositiveBudget /\ Len(StdoutText) <= tout.truncate_length.n)
                  => tout.ret.text = StdoutText
           /\ NoBudget => tout.ret.text = StdoutText

\* an output longer than a positive budget was cut and marked, and the
\* output held a character of more than one byte
C14_Witness ==
    /\ tout.t = "ret"
    /\ tout.ret.kind = "output"
    /\ PositiveBudget
    /\ Len(StdoutText) > tout.truncate_length.n
    /\ Len(StdoutText) < Len(tout.proc.stdout)
    /\ Len(tout.ret.text) = tout.truncate_length.n + 1

(***************************************************************************)
(* The search tools                                                        *)
(***************************************************************************)
\* the path argument of the call names a place that is not the working
\* directory and not below it
ResolvesOutside ==
    ~IsUnder(Resolve(FileSystem(tin.groups), tin.path), WorkingDir)

\* the call passes only the arguments the tool declares
DeclaredArgsOnly == IF tin.t = "read_file" THEN TRUE ELSE ~tin.kwargs

Rejection ==
    IF tin.t = "read_file" THEN "not_a_subdirectory"
    ELSE IF tin.kwargs THEN "unexpected_arguments"
    ELSE IF tin.t = "find_text_in_files" /\ tin.unix_pattern = <<"*">>
    THEN "too_broad"
    ELSE "not_a_subdirectory"

C16_DenyListedTreeListsNothing ==
    (/\ tout.t = "grep"
     /\ tin.t = "find_files"
     /\ tin.groups \subseteq {"vcs", "node", "cache"}
     /\ tin.path = <<".">>
     /\ ~tin.kwargs)
        => /\ tout.kind = "listing"
           /\ tout.out.files = {}
           /\ tout.out.directories = {}

(***************************************************************************)
(* Tool errors and the run                                                 *)
(***************************************************************************)
\* C17: the step in which a tool call of a stage first fails hands a text
\* back to the stage: it leaves the position of the run where it was and
\* emits no Run Result
C17_ToolErrorIsOnlyText ==
    [][(~tool_seen /\ tool_seen') => (pc' = pc /\ emitted' = emitted)]_vars

(***************************************************************************)
(* The entry points                                                        *)
(***************************************************************************)
\* the process has ended
Terminated == pc = "exit" \/ ipc \in {"exit", "raised"}

\* C18: when either entry point has ended, it has printed one terminal
\* result and its exit status is zero, whatever the entry URL was
C18_PrintsAndExitsZero ==
    Terminated => (ExitStatus = 0 /\ Len(stdout) = 1)

(***************************************************************************)
(* Entry validation and the run state of a code-review run                 *)
(***************************************************************************)
\* the entry parameter passes the presence test and _validate_pr_url
EntryAccepted == Truthy(pr_url) /\ ValidatePrUrl(pr_url)

\* the message of the failure a rejected entry parameter ends with
RejectionMessage ==
    IF ~Truthy(pr_url) THEN <<"No pr_url provided">>
    ELSE <<"Invalid pr_url format">>

\* C19: a stage is invoked only after the entry parameter has passed the
\* presence test and _validate_pr_url; a run whose parameter is rejected
\* invokes no stage, and once the orchestrator has ended it has emitted
\* exactly one record, the failure naming the test that rejected
C19_NoStageBeforeValidation ==
    /\ invoked # <<>> => EntryAccepted
    /\ ~EntryAccepted
           => /\ invoked = <<>>
              /\ Len(emitted) <= 1
              /\ \A k \in 1..Len(emitted) :
                     IsFailure(emitted[k], RejectionMessage)
              /\ pc = "agent_done" => Len(emitted) = 1

\* a URL that is present but not of the expected form was rejected, and
\* the failure was printed
C19_Witness ==
    /\ Truthy(pr_url)
    /\ ~ValidatePrUrl(pr_url)
    /\ pc = "exit"
    /\ invoked = <<>>
    /\ Len(emitted) = 1
    /\ stdout = emitted

\* the stage whose run_async loop is being consumed
RunningStage(at) ==
    at \in {"fetch_cluster", "review", "filter_reviews", "post_comment"}

\* the keys a run may hold once its cluster list is known
AllowedKeys ==
    {"pr_url", "base_clusters", "reviewed_review", "output"}
        \cup {ReviewKey(k) : k \in 0..((IF Iterable(clusters)
                                       THEN Len(Items(clusters))
                                       ELSE 0) - 1)}

\* C20: no step removes a key of the run state or changes the value of
\* pr_url; a step that adds or changes a key is the seeding of pr_url or
\* the end of a stage, which touches only the declared output key of that
\* stage; the keys are always among pr_url, base_clusters, review_0 ..
\* review_n-1, reviewed_review and output
C20_StateOnlyGrows ==
    [][/\ DOMAIN state \subseteq DOMAIN state'
       /\ DOMAIN state' \subseteq AllowedKeys'
       /\ "pr_url" \in DOMAIN state' => state'["pr_url"] = pr_url
       /\ \A k \in DOMAIN state' :
              (k \notin DOMAIN state \/ state'[k] # state[k])
                  => \/ k = "pr_url" /\ pc = "main"
                     \/ RunningStage(pc) /\ k = KeyOf(Last(invoked))]_vars

\* a run with two clusters has ended with every key written
C20_Witness ==
    /\ pc = "exit"
    /\ DOMAIN state = {"pr_url", "base_clusters", "review_0", "review_1",
                       "reviewed_review", "output"}
    /\ state["pr_url"] = pr_url

\* C21: in a success record the reviews list has one element per cluster
\* of stage 1, and its i-th element is the decoded value the review of
\* cluster i left under review_i (index order, nothing dropped, duplicated
\* or reordered).
C21_ReviewsFollowClusters ==
    Succeeded =>
        LET reviews == emitted[1].m.reviews.items
        IN  /\ Len(reviews) = ClusterCount
            /\ \A k \in 1..ClusterCount :
                   LET v == Get(state, ReviewKeys[k])
                   IN  reviews[k] = IF v.t = "json" THEN v.v ELSE v

\* a run over two clusters has succeeded, the first review left as a JSON
\* text and the second as a structure
C21_Witness ==
    /\ Succeeded
    /\ ClusterCount = 2
    /\ Get(state, "review_0").t = "json"
    /\ Get(state, "review_1").t = "dict"

\* C22: every issue-resolution run that has ended has emitted exactly one
\* event of the orchestrator (a missing-key message or the pr_output
\* text), whatever its stages left, pr_output absent included.
C22_OneTerminalEvent ==
    ipc \in {"agent_done", "exit"} =>
        /\ Len(ievents) = 1
        /\ ievents[1].author = "resolve_issue_agent"

\* at most one stage of run r is active: the stages it completed are the
\* first ones it invoked, and at most the last invoked one is still open,
\* which then is the stage the run is suspended in
OneStageActive(r) ==
    /\ Len(r.completed) <= Len(r.invoked)
    /\ Len(r.invoked) <= Len(r.completed) + 1
    /\ SubSeq(r.invoked, 1, Len(r.completed)) = r.completed
    /\ r.pc \in {"fetch_cluster", "review", "filter_reviews", "post_comment"}
           => Len(r.invoked) = Len(r.completed) + 1

\* the session state of run r holds its own entry URL and what its own
\* completed stages may have left, and a success record of r is put
\* together from that state
OwnSession(r) ==
    /\ r.state # EmptyMap => r.state["pr_url"] = r.pr_url
    /\ DOMAIN r.state \subseteq
           {"pr_url"} \cup {KeyOf(r.completed[k]) : k \in 1..Len(r.completed)}
    /\ (r.emitted # <<>> /\ IsSuccess(r.emitted[1])) =>
           LET b == r.state["base_clusters"]
               base == IF b.t = "json" THEN b.v ELSE b
               n == Len(Items(base.m["clusters"]))
               rev(k) == r.state[ReviewKeys[k]]
           IN  r.emitted[1] =
                   SuccessResponse(base,
                                   [k \in 1..n |-> IF rev(k).t = "json"
                                                   THEN rev(k).v ELSE rev(k)],
                                   r.state["reviewed_review"])

\* C23: at any moment at most one stage or fan-out invocation of a run is
\* active, and when the event loop interleaves two runs at their
\* suspension points each run's session state is read and written by its
\* own stages only: a step of one run leaves the suspended run as it is,
\* a resumed run continues from exactly what it left, and its result is
\* the one its own stage outputs give.
C23_RunsAreIsolated ==
    /\ [](OneStageActive(Run) /\ OneStageActive(other)
            /\ OwnSession(Run) /\ OwnSession(other))
    /\ [][other' = other \/ (other' = Run /\ Run' = other)]_vars

\* a run has succeeded while the other run, started before, is suspended
\* inside its review stage with its own clusters in its session
C23_Witness ==
    /\ other.t = "run"
    /\ Succeeded
    /\ pc = "agent_done"
    /\ other.pc = "review"
    /\ "base_clusters" \in DOMAIN other.state
    /\ Get(state, "base_clusters") # other.state["base_clusters"]

\* C24: find_files and find_text_in_files widen the pattern (a `*` on both
\* ends) exactly when it holds no wildcard at all; a pattern that holds
\* `*`, `?` or `[` is used as given, so whatever is listed matches it as
\* given.
C24_WidenedOnlyWithoutWildcard ==
    (tout.t = "grep" /\ tout.kind \in {"listing", "matches"}) =>
        LET fs == FileSystem(tin.groups)
            top == Resolve(fs, tin.path)
            given == tin.unix_pattern
            used == IF \E k \in 1..Len(given) : given[k] \in {"*", "?", "["}
                    THEN given
                    ELSE <<"*">> \o given \o <<"*">>
        IN  IF tout.kind = "listing"
            THEN \A c \in tout.out.files \cup tout.out.directories :
                     Matcher(tin.is_case_sensitive, PathStr(top \o c), used)
            ELSE \A p \in DOMAIN tout.out : \A m \in tout.out[p] :
                     Matcher(tin.is_case_sensitive,
                             LinesOf(fs, top \o p)[m.line] \o <<"\n">>, used)

\* C25: find_files lists, relative to path, the entries whose path
\* relative to the searched directory matches the pattern and that are
\* neither deny-listed nor dot-prefixed, files in the first section and
\* directories in the second; stated here for the entries directly under
\* path, which every depth includes.
C25_ListsRelativeMatches ==
    (tout.t = "grep" /\ tout.fn = "find_files" /\ tout.kind = "listing") =>
        LET fs == FileSystem(tin.groups)
            top == Resolve(fs, tin.path)
            expected ==
                {c \in DOMAIN fs :
                    /\ c # <<>>
                    /\ Parent(c) = top
                    /\ ~ShouldSkipPath(c)
                    /\ ~HasDotPart(RelativeTo(c, top))
                    /\ Matcher(tin.is_case_sensitive, c[Len(c)],
                               Widen(tin.unix_pattern))}
            children(S) == {r \in S : Len(r) = 1}
        IN  /\ children(tout.out.files) =
                   {RelativeTo(c, top) : c \in {x \in expected : PathIsFile(fs, x)}}
            /\ children(tout.out.directories) =
                   {RelativeTo(c, top) : c \in {x \in expected : ~PathIsFile(fs, x)}}

\* C26: find_files lists nothing deeper than depth levels below path: no
\* listed entry has a path relative to path of more than depth segments
\* (the entries directly under path are let through at depth 0 as well, so
\* that only a listing below the limit counts).
C26_DepthBoundsListing ==
    (tout.t = "grep" /\ tout.fn = "find_files" /\ tout.kind = "listing") =>
        \A r \in tout.out.files \cup tout.out.directories :
            Len(r) <= (IF tin.depth = 0 THEN 1 ELSE tin.depth)

\* str.lower for the letters of the model's patterns
Lower(s) ==
    [k \in 1..Len(s) |->
        CASE s[k] = "K" -> "k" [] s[k] = "E" -> "e" [] s[k] = "Y" -> "y"
          [] OTHER -> s[k]]

\* C27: with is_case_sensitive = False a line is reported by
\* find_text_in_files exactly when it matches the pattern with the case of
\* the letters ignored; with is_case_sensitive = True exactly when it
\* matches letter for letter.
C27_CaseIgnoredByDefault ==
    (/\ tout.t = "grep"
     /\ tout.fn = "find_text_in_files"
     /\ tout.kind \in {"matches", "no_matches"}) =>
        LET fs == FileSystem(tin.groups)
            top == Resolve(fs, tin.path)
            pattern == Widen(tin.unix_pattern)
            reported(p, j) ==
                /\ tout.kind = "matches"
                /\ RelativeTo(p, top) \in DOMAIN tout.out
                /\ \E m \in tout.out[RelativeTo(p, top)] : m.line = j
        IN  \A p \in tout.reads : \A j \in 1..Len(LinesOf(fs, p)) :
                LET line == LinesOf(fs, p)[j] \o <<"\n">>
                IN  reported(p, j) <=>
                        IF tin.is_case_sensitive
                        THEN Fnmatch(line, pattern)
                        ELSE Fnmatch(Lower(line), Lower(pattern))

\* C28: find_text_in_files reports no match from a file the deny-list
\* names, nor from a file that is dot-prefixed or lies under a
\* dot-prefixed directory of the working directory, whatever recursive is
\* and whether path names a directory or one file.
C28_NoMatchFromSkippedFiles ==
    (/\ tout.t = "grep"
     /\ tout.fn = "find_text_in_files"
     /\ tout.kind = "matches") =>
        LET top == Resolve(FileSystem(tin.groups), tin.path)
        IN  \A rel \in DOMAIN tout.out :
                /\ ~ShouldSkipPath(top \o rel)
                /\ ~HasDotPart(RelativeTo(top \o rel, WorkingDir))

\* C29: find_text_in_files matches the pattern against the full text of
\* each line: a line of a searched file is reported, with its 1-based
\* number, exactly when its text matches the pattern, so that a pattern
\* ending in literal text matches the lines that end with it and a pattern
\* starting with literal text the lines that start with it.
C29_WholeLineIsMatched ==
    (/\ tout.t = "grep"
     /\ tout.fn = "find_text_in_files"
     /\ tout.kind \in {"matches", "no_matches"}) =>
        LET fs == FileSystem(tin.groups)
            top == Resolve(fs, tin.path)
            numbers(p) ==
                IF tout.kind = "matches" /\ RelativeTo(p, top) \in DOMAIN tout.out
                THEN {m.line : m \in tout.out[RelativeTo(p, top)]}
                ELSE {}
        IN  \A p \in tout.reads :
                numbers(p) =
                    {j \in 1..Len(LinesOf(fs, p)) :
                        Matcher(tin.is_case_sensitive, LinesOf(fs, p)[j],
                                Widen(tin.unix_pattern))}

\* read_file was called on a regular file inside the working directory
ReadsRegularFile ==
    /\ tout.t = "grep"
    /\ tout.fn = "read_file"
    /\ ~NotConfined(Resolve(FileSystem(tin.groups), tin.path))
    /\ PathIsFile(FileSystem(tin.groups), Resolve(FileSystem(tin.groups), tin.path))

\* the lines of that file whose 1-based number lies between start_line and
\* end_line (an unset bound is open), in file order, as one text
RangeText ==
    LET fs == FileSystem(tin.groups)
        lines == LinesOf(fs, Resolve(fs, tin.path))
        lo == IF tin.start_line.t = "none" \/ tin.start_line.n < 1
              THEN 1 ELSE tin.start_line.n
        hi == IF tin.end_line.t = "none" \/ tin.end_line.n > Len(lines)
              THEN Len(lines) ELSE tin.end_line.n
    IN  JoinLines(SubSeq(lines, lo, hi))

C31_ReturnedTextIsBounded ==
    (tout.t = "ret" /\ tout.ret.raised = "" /\ PositiveBudget) =>
        LET bound == tout.truncate_length.n + Len(TruncateStr)
        IN  /\ tout.ret.kind = "output" => Len(tout.ret.text) <= bound
            /\ tout.ret.kind = "error" => Len(tout.ret.error.err_msg) <= bound

====
